---- MODULE Spec2Model ----
(***************************************************************************)
(* Quiz session controller, progress store and quiz normalizer of          *)
(* src/index.tsx, as a state machine.                                      *)
(*                                                                         *)
(* Question ids are the naturals 1, 2, ...; they stand for the             *)
(* one-character strings "1", "2", ... whose String.prototype.sort order   *)
(* is the numeric order.  Timestamps (updatedAt, addedAt) and the purely   *)
(* visual state (transitionDirection, the toasts of the session handlers,  *)
(* confirmClearProgress, showAnswerSheetModal, quizTime) are left out: no  *)
(* handler reads them to decide what it writes.                            *)
(*                                                                         *)
(* A handler and the save effect of the render it causes are one step.     *)
(* The timers of navigateTo (10 ms) and of the auto-advance (300 ms or     *)
(* 1500 ms) are steps of their own and fire in any order, with the index   *)
(* and length their closures captured.  quizSettings.showNavButtons keeps  *)
(* its initial value, true; the two clicks of the in-quiz reset are one    *)
(* step.  Sessions are started from the history view: a bank whose         *)
(* questions are fixed in Spec, and banks and tags whose question lists    *)
(* vary in SpecStart.  The retake of the mistakes view, the favorites, the *)
(* syllabus scopes and the start after a file import go through the same   *)
(* startQuizWithResume with other keys and lists and are not separate      *)
(* actions here.                                                           *)
(***************************************************************************)
EXTENDS Integers, Sequences, FiniteSets, TLC

VARIABLES
  screen,         \* useState 'home' | 'quiz' | 'result' | 'mistakes' | 'history'
  pendingNav,     \* targets of the navigateTo timers not yet fired, oldest first
  quizSettings,   \* mode, confirmSubmit, autoNextCorrect, autoNextWrong
  sessionKey,     \* key of the open session, "" before any session
  quizData,       \* question ids of the open session, in order
  currentQIndex,  \* 0-based index of the current question
  userAnswers,    \* question id -> [answerIds, isCorrect]
  tempSelection,  \* pending selection, option ids
  mistakes,       \* mistakes collection, newest first: [id, userAnswer]
  resumeDialog,   \* NoDialog or the resume/restart choice being shown
  store,          \* localStorage quiz_progress_v1: session key -> progress
  timers,         \* auto-advance timers not yet fired: captured [idx, len]
  normIn,         \* normalizeQuizJson: the element of the array being handled
  normOut,        \* normalizeQuizJson: position in the array, out, result
  mapIn,          \* mapQuestionToSyllabus: the question, preset, metaMap and bank title
  mapOut,         \* mapQuestionToSyllabus: the value returned
  sylIn,          \* normalizeSyllabusJson: the parsed response of the model
  sylOut,         \* normalizeSyllabusJson: the value returned
  syllabusPresets,    \* useState syllabusPresets, newest first
  selectedSyllabusId, \* useState selectedSyllabusId, NoSelection for null
  jsonIn,         \* extractFirstJsonBlock: the raw text
  jsonOut,        \* extractFirstJsonBlock: the value returned
  history,        \* useState history: the banks, newest first
  numQuestions,   \* settings.numQuestions
  batchSize,      \* useState batchSize
  loading,        \* useState loading
  generationStage, \* useState generationStage
  currentBatchIndex, \* useState currentBatchIndex
  totalBatches,   \* useState totalBatches
  allQuestions,   \* generateQuiz: the local allQuestions of the run
  existingSet,    \* generateQuiz: the local existingSet of the run
  toast,          \* the message of the last showToast of generateQuiz, NoToast before
  geminiRequests, \* callLLM: the version paths requested so far, in order
  geminiRes,      \* callLLM: the local res, the last response received
  llmOutcome,     \* callLLM: NoOutcome while it runs, then the text returned or the error thrown
  mistakeTrash,   \* useState mistakeTrash, newest first: [id, userAnswer]
  questionMetaMap \* useState questionMetaMap: question id -> [assignedBookId, assignedTopicId]

vars == <<screen, pendingNav, quizSettings, sessionKey, quizData, currentQIndex,
          userAnswers, tempSelection, mistakes, resumeDialog, store, timers,
          normIn, normOut,
          mapIn, mapOut,
          sylIn, sylOut, syllabusPresets, selectedSyllabusId,
          jsonIn, jsonOut,
          history, numQuestions, batchSize, loading, generationStage, currentBatchIndex, totalBatches, allQuestions, existingSet, toast,
          geminiRequests, geminiRes, llmOutcome,
          mistakeTrash,
          questionMetaMap>>

sessionVars == <<screen, pendingNav, quizSettings, sessionKey, quizData,
                 currentQIndex, userAnswers, tempSelection, mistakes,
                 resumeDialog, store, timers>>

normVars == <<normIn, normOut>>

mapVars == <<mapIn, mapOut>>

sylVars == <<sylIn, sylOut, syllabusPresets, selectedSyllabusId>>

jsonVars == <<jsonIn, jsonOut>>

genVars == <<history, numQuestions, batchSize, loading, generationStage, currentBatchIndex, totalBatches, allQuestions, existingSet, toast>>

llmVars == <<geminiRequests, geminiRes, llmOutcome>>

trashVars == <<mistakeTrash>>

metaVars == <<questionMetaMap>>

pureVars == <<normIn, normOut,
             mapIn, mapOut,
             sylIn, sylOut, syllabusPresets, selectedSyllabusId,
             jsonIn, jsonOut,
             history, numQuestions, batchSize, loading, generationStage, currentBatchIndex, totalBatches, allQuestions, existingSet, toast,
             geminiRequests, geminiRes, llmOutcome,
             mistakeTrash,
             questionMetaMap>>

(***************************************************************************)
(* Bounds                                                                  *)
(***************************************************************************)
MaxQuestions == 2       \* longest question list requested for a scope
MaxTimers == 1          \* auto-advance timers pending at once
MaxPendingNav == 1      \* navigateTo timers pending at once
MaxStoredIndex == 3     \* largest currentIndex of a record stored earlier
MaxItems == 2           \* elements of the array given to normalizeQuizJson
MaxAnswerChars == 2     \* characters of an answer given as a string
MaxAnswerElems == 2     \* elements of an answer given as an array
MaxTopicDepth == 3      \* levels of nested topics in the first book of a preset
MaxSubtopics == 2       \* subtopics of one topic of a raw syllabus
MaxRawLen == 4          \* tokens of a raw text given to extractFirstJsonBlock
MaxInnerLen == 3        \* tokens of the text inside an API envelope
MaxNumQuestions == 3    \* largest settings.numQuestions of a generation run
MaxBatchSize == 2       \* largest batchSize of a generation run
MaxReturned == 2        \* questions one batch of a generation run returns
MaxBanks == 2           \* banks in history
MaxParts == 2           \* parts of the candidate of a Gemini response
MaxTrash == 2           \* items in the trash of the mistakes

(***************************************************************************)
(* Generic helpers                                                         *)
(***************************************************************************)
Range(s) == {s[i] : i \in DOMAIN s}

EmptyMap == [x \in {} |-> TRUE]

Put(m, k, v) == [x \in (DOMAIN m) \cup {k} |-> IF x = k THEN v ELSE m[x]]

Remove(m, k) == [x \in (DOMAIN m) \ {k} |-> m[x]]

SeqsUpTo(S, n) == UNION {[1..k -> S] : k \in 0..n}

RemoveAt(s, i) == [j \in 1..(Len(s) - 1) |-> IF j < i THEN s[j] ELSE s[j + 1]]

Count(s, x) == Cardinality({i \in DOMAIN s : s[i] = x})

Min2(a, b) == IF a < b THEN a ELSE b

Max2(a, b) == IF a > b THEN a ELSE b

(***************************************************************************)
(* Questions                                                               *)
(***************************************************************************)
\* bank.questions of the bank in history: a single question and a multiple one
BankQuestions == <<1, 2>>

QuestionIds == Range(BankQuestions)

letters == <<"A", "B">>

LetterRank(x) == CHOOSE i \in DOMAIN letters : letters[i] = x

OptionIdSet == Range(letters)

buildBankSessionKey == "bank:1"

\* the bank's key and the key of a scope whose question list varies
SessionKeys == {buildBankSessionKey, "tag:x"}

Screens == {"home", "history", "quiz", "result", "mistakes"}

\* The banks hold single questions (odd ids, answer A) and multiple
\* questions (even ids, answers A and B), each with the options A and B.
BankAnswerIds(id) == IF id % 2 = 1 THEN <<"A">> ELSE <<"A", "B">>

Question(id) ==
  [id |-> id,
   type |-> IF Len(BankAnswerIds(id)) > 1 THEN "multiple" ELSE "single",
   options |-> letters,
   answerIds |-> BankAnswerIds(id)]

\* the question lists a tag, book or mistakes scope can hold
QuestionLists == SeqsUpTo(QuestionIds, MaxQuestions) \ {<< >>}

\* checkAnswerIsCorrect without the comparison of the lengths
checkAnswerIsCorrect_NoLength(q, selected) ==
  \A i \in DOMAIN selected : selected[i] \in Range(q.answerIds)

checkAnswerIsCorrect(q, selected) ==
  IF Len(selected) # Len(q.answerIds) THEN FALSE
  ELSE \A i \in DOMAIN selected : selected[i] \in Range(q.answerIds)

(***************************************************************************)
(* normalizeQuizJson, from the located array on.  A string is the sequence *)
(* of its characters.  The id generated for an element without id or qid   *)
(* is kept as the element's index; the id of an exported question is the   *)
(* same value.  The normalized options are kept as two lists, their ids    *)
(* and their texts.                                                        *)
(***************************************************************************)
Null == [kind |-> "null"]

Num(n) == [kind |-> "number", n |-> n]

Str(chars) == [kind |-> "string", chars |-> chars]

Arr(elems) == [kind |-> "array", elems |-> elems]

IsArray(v) == v.kind = "array"

\* an option object; id is NoId when it has neither id nor label, text is
\* empty when it has none of text, value and title
Opt(id, text) == [kind |-> "object", id |-> id, text |-> text]

Obj(id) == Opt(id, << >>)

NoId == ""

normLetters == <<"A", "B", "C">>

toUpperCase(c) ==
  CASE c = "a" -> "A"
    [] c = "b" -> "B"
    [] OTHER -> c

IsSpace(c) == c = " "

RECURSIVE trimStart(_)
trimStart(chars) ==
  IF chars # << >> /\ IsSpace(Head(chars)) THEN trimStart(Tail(chars))
  ELSE chars

RECURSIVE trimEnd(_)
trimEnd(chars) ==
  IF chars # << >> /\ IsSpace(chars[Len(chars)])
  THEN trimEnd(SubSeq(chars, 1, Len(chars) - 1))
  ELSE chars

trim(chars) == trimEnd(trimStart(chars))

IsSeparator(c) == c = "," \/ IsSpace(c)

\* str.split(/[, \t]+/): the pieces between runs of separators; a piece is
\* empty only before a leading or after a trailing run
RECURSIVE splitFrom(_, _, _)
splitFrom(chars, piece, inRun) ==
  IF chars = << >> THEN <<piece>>
  ELSE IF IsSeparator(Head(chars))
       THEN IF inRun THEN splitFrom(Tail(chars), piece, TRUE)
            ELSE <<piece>> \o splitFrom(Tail(chars), << >>, TRUE)
       ELSE splitFrom(Tail(chars), Append(piece, Head(chars)), FALSE)

splitSeparators(chars) == splitFrom(chars, << >>, FALSE)

\* str.split(''): one piece per character
splitChars(chars) == [i \in DOMAIN chars |-> <<chars[i]>>]

\* toOptions: the ids of the normalized options
toOptions(options) ==
  IF options # << >> /\ options[1].kind = "string"
  THEN [i \in DOMAIN options |-> normLetters[i]]
  ELSE [i \in DOMAIN options |->
          IF options[i].kind = "object" /\ options[i].id # NoId
          THEN options[i].id
          ELSE normLetters[i]]

\* toOptions: the texts of the normalized options; String(t) of an object
\* is the one token "[object Object]"
toOptionTexts(options) ==
  IF options # << >> /\ options[1].kind = "string"
  THEN [i \in DOMAIN options |->
          IF options[i].kind = "string" THEN options[i].chars
          ELSE <<"[object Object]">>]
  ELSE [i \in DOMAIN options |->
          IF options[i].kind = "object" THEN options[i].text
          ELSE options[i].chars]

AddId(ids, id) == IF id \in Range(ids) THEN ids ELSE Append(ids, id)

\* byIndex of normalizeAnswers: idx is 0-based
byIndex(ids, normalizedOptions, idx) ==
  IF idx + 1 \in DOMAIN normalizedOptions
  THEN AddId(ids, normalizedOptions[idx + 1])
  ELSE ids

\* byIdOrLabel of normalizeAnswers, on the characters of String(x)
byIdOrLabel(ids, normalizedOptions, x) ==
  IF x.kind = "null" THEN ids
  ELSE LET t == trim(x.chars)
           hits == {i \in DOMAIN normalizedOptions :
                      /\ Len(t) = 1
                      /\ \/ normalizedOptions[i] = t[1]
                         \/ toUpperCase(normalizedOptions[i]) = toUpperCase(t[1])}
       IN IF hits = {} THEN ids
          ELSE AddId(ids, normalizedOptions[CHOOSE i \in hits :
                                              \A j \in hits : i <= j])

RECURSIVE resolveAll(_, _, _)
resolveAll(ids, normalizedOptions, values) ==
  IF values = << >> THEN ids
  ELSE resolveAll(
         IF Head(values).kind = "number"
         THEN byIndex(ids, normalizedOptions, Head(values).n)
         ELSE byIdOrLabel(ids, normalizedOptions, Head(values)),
         normalizedOptions, Tail(values))

\* normalizeAnswers: q.a is the first answer field that is present
normalizeAnswers(q, normalizedOptions) ==
  LET a == q.a
      ids ==
        CASE a.kind = "array" -> resolveAll(<< >>, normalizedOptions, a.elems)
          [] a.kind = "string" ->
               LET str == trim(a.chars)
                   pieces == IF \E i \in DOMAIN str : IsSeparator(str[i])
                             THEN splitSeparators(str)
                             ELSE splitChars(str)
               IN resolveAll(<< >>, normalizedOptions,
                             [i \in DOMAIN pieces |-> Str(pieces[i])])
          [] a.kind = "number" -> byIndex(<< >>, normalizedOptions, a.n)
          [] OTHER -> << >>
  IN IF ids = << >> /\ q.answerIndex.kind = "number"
     THEN byIndex(ids, normalizedOptions, q.answerIndex.n)
     ELSE ids

NoItem == [kind |-> "none"]

\* the id field of an element that has neither id nor qid
NoItemId == 0 - 1

NormStart == [state |-> "running", idx |-> 0, out |-> << >>]

\* the body of arr.forEach for one element
normalizeItem(out, item, idx) ==
  IF item.kind = "null" THEN out
  ELSE LET stem == item.stem
           options == toOptions(item.options)
           answerIds == normalizeAnswers(item, options)
       IN IF stem = << >> \/ Len(options) = 0 THEN out
          ELSE Append(out,
                 [id |-> IF item.id # NoItemId THEN item.id ELSE idx,
                  type |-> IF Len(answerIds) > 1 THEN "multiple" ELSE "single",
                  stem |-> stem,
                  options |-> options,
                  optionTexts |-> toOptionTexts(item.options),
                  answerIds |-> answerIds])

\* a parsed value that is an object: its questions, data, result and
\* mappings fields, and in self its own question fields (NoItem when it has
\* none of stem, question, options and choices)
QuizValue(questions, data, result, mappings, self) ==
  [kind |-> "object", questions |-> questions, data |-> data,
   result |-> result, mappings |-> mappings, self |-> self]

\* the question array of the parsed value, Null when there is none; an
\* options field that is present is truthy even when it is an empty array
locateArray(rawObj) ==
  IF IsArray(rawObj) THEN rawObj
  ELSE IF IsArray(rawObj.questions) THEN rawObj.questions
  ELSE IF IsArray(rawObj.data) THEN rawObj.data
  ELSE IF rawObj.result # Null /\ IsArray(rawObj.result.questions)
  THEN rawObj.result.questions
  ELSE IF rawObj.mappings # Null /\ IsArray(rawObj.mappings) THEN Null
  ELSE IF rawObj.self # NoItem /\ rawObj.self.stem # << >>
  THEN Arr(<<rawObj.self>>)
  ELSE Null

\* arr.forEach from index idx on
RECURSIVE normalizeAll(_, _, _)
normalizeAll(items, idx, out) ==
  IF items = << >> THEN out
  ELSE normalizeAll(Tail(items), idx + 1, normalizeItem(out, Head(items), idx))

\* normalizeQuizJson on the parsed value, Null when nothing parsed; the
\* list returned is given as Arr
normalizeQuizJson(rawObj) ==
  IF rawObj = Null THEN Null
  ELSE IF locateArray(rawObj) = Null THEN Null
  ELSE LET out == normalizeAll(locateArray(rawObj).elems, 0, << >>)
       IN IF out = << >> THEN Null ELSE Arr(out)

\* JSON.stringify(bank.questions) read back by JSON.parse: an array whose
\* elements carry the fields of the questions
exportQuizBankToJson(questions) ==
  Arr([i \in DOMAIN questions |->
         [kind |-> "object",
          id |-> questions[i].id,
          stem |-> questions[i].stem,
          options |-> [j \in DOMAIN questions[i].options |->
                         Opt(questions[i].options[j],
                             questions[i].optionTexts[j])],
          a |-> Arr([j \in DOMAIN questions[i].answerIds |->
                       Str(<<questions[i].answerIds[j]>>)]),
          answerIndex |-> Null]])

(***************************************************************************)
(* mapQuestionToSyllabus.  metaMap is given by its entry for the question; *)
(* a missing entry or field is the empty string, which the code treats the *)
(* same way (both are falsy).  A topicId of null in the returned mapping   *)
(* is the empty string; a returned null is Null.  Scores are kept doubled, *)
(* so that the half-point depth bonus is an integer: a rule worth n points *)
(* adds 2 * n and a threshold t is compared as 2 * t.                      *)
(***************************************************************************)
NoMapIn == [kind |-> "none"]

NoMapOut == [state |-> "idle"]

NoMeta == [assignedBookId |-> "", assignedTopicId |-> ""]

toLowerCase(c) ==
  CASE c = "A" -> "a"
    [] c = "H" -> "h"
    [] c = "R" -> "r"
    [] OTHER -> c

normalize(chars) == trim([i \in 1..Len(chars) |-> toLowerCase(chars[i])])

\* String.prototype.includes
includes(a, b) ==
  \E i \in 1..(Len(a) - Len(b) + 1) : SubSeq(a, i, i + Len(b) - 1) = b

containsLoose(a, b) ==
  Len(a) > 0 /\ Len(b) > 0 /\ (includes(a, b) \/ includes(b, a))

RECURSIVE join(_)
join(parts) ==
  IF parts = << >> THEN << >>
  ELSE IF Len(parts) = 1 THEN parts[1]
  ELSE parts[1] \o <<" ">> \o join(Tail(parts))

\* the text blobs of the question
questionTexts(q, bankTitle) ==
  [qBookTitle |-> normalize(bankTitle),
   qSourceDoc |-> normalize(q.sourceDocument),
   questionText |->
     normalize(join(SelectSeq(<<bankTitle, q.sourceDocument, q.stem,
                                q.coreConcept, q.analysis>>,
                              LAMBDA part : part # << >>))),
   nCore |-> normalize(q.coreConcept),
   nAnalysis |-> normalize(q.analysis)]

targetBookId_QuestionFirst(meta, q) ==
  IF q.assignedBookId # "" THEN q.assignedBookId ELSE meta.assignedBookId

targetBookId(meta, q) ==
  IF meta.assignedBookId # "" THEN meta.assignedBookId ELSE q.assignedBookId

targetTopicId(meta, q) ==
  IF meta.assignedTopicId # "" THEN meta.assignedTopicId ELSE q.assignedTopicId

RECURSIVE findTopicById(_, _)
findTopicById(id, topics) ==
  \E i \in 1..Len(topics) :
    topics[i].id = id \/ findTopicById(id, topics[i].topics)

\* preset.books.find(b => b.id === id): index of the first such book, or 0
findBook(books, id) ==
  LET found == {i \in 1..Len(books) : books[i].id = id}
  IN IF found = {} THEN 0 ELSE CHOOSE i \in found : \A j \in found : i <= j

\* the manual assignment that hands the assigned topic id on unchecked
manualAssignment_KeepTopic(q, preset, meta) ==
  LET bi == findBook(preset.books, targetBookId(meta, q))
  IN IF targetBookId(meta, q) = "" \/ bi = 0 THEN Null
     ELSE [bookId |-> preset.books[bi].id, topicId |-> targetTopicId(meta, q)]

\* step 1: the mapping of the manual assignment, Null when there is none
manualAssignment(q, preset, meta) ==
  LET bi == findBook(preset.books, targetBookId(meta, q))
      topicId == targetTopicId(meta, q)
  IN IF targetBookId(meta, q) = "" \/ bi = 0 THEN Null
     ELSE [bookId |-> preset.books[bi].id,
           topicId |-> IF topicId # "" /\ topicId # "other"
                          /\ ~findTopicById(topicId, preset.books[bi].topics)
                       THEN ""
                       ELSE topicId]

bookScore2(nBookTitleS, t) ==
  (IF containsLoose(t.qBookTitle, nBookTitleS) THEN 6 ELSE 0)
  + (IF containsLoose(t.qSourceDoc, nBookTitleS) THEN 6 ELSE 0)
  + (IF containsLoose(t.questionText, nBookTitleS) THEN 2 ELSE 0)

\* the topic score without the depth bonus
topicScore2_NoBonus(nTopicTitle, t, depth) ==
  (IF containsLoose(t.qBookTitle, nTopicTitle) THEN 4 ELSE 0)
  + (IF containsLoose(t.questionText, nTopicTitle) THEN 4 ELSE 0)
  + (IF containsLoose(t.nCore, nTopicTitle) THEN 4 ELSE 0)
  + (IF containsLoose(t.nAnalysis, nTopicTitle) THEN 2 ELSE 0)

topicScore2(nTopicTitle, t, depth) ==
  (IF containsLoose(t.qBookTitle, nTopicTitle) THEN 4 ELSE 0)
  + (IF containsLoose(t.questionText, nTopicTitle) THEN 4 ELSE 0)
  + (IF containsLoose(t.nCore, nTopicTitle) THEN 4 ELSE 0)
  + (IF containsLoose(t.nAnalysis, nTopicTitle) THEN 2 ELSE 0)
  + (3 - Min2(depth, 2))

NoBest == [bestBookId |-> "", bestBookScore |-> 0,
           bestTopicBookId |-> "", bestTopicId |-> "", bestTopicScore |-> 0]

RECURSIVE checkTopicsRecursively(_, _, _, _, _)
checkTopicsRecursively(topics, depth, best, bookId, t) ==
  IF topics = << >> THEN best
  ELSE
    LET topic == Head(topics)
        nTopicTitle == normalize(topic.title)
        topicScore == topicScore2(nTopicTitle, t, depth)
        scored == IF topicScore > best.bestTopicScore
                  THEN [best EXCEPT !.bestTopicScore = topicScore,
                                    !.bestTopicId = topic.id,
                                    !.bestTopicBookId = bookId]
                  ELSE best
        below == IF Len(topic.topics) > 0
                 THEN checkTopicsRecursively(topic.topics, depth + 1, scored,
                                             bookId, t)
                 ELSE scored
    IN IF nTopicTitle = << >>
       THEN checkTopicsRecursively(Tail(topics), depth, best, bookId, t)
       ELSE checkTopicsRecursively(Tail(topics), depth, below, bookId, t)

RECURSIVE scoreBooks(_, _, _)
scoreBooks(books, best, t) ==
  IF books = << >> THEN best
  ELSE
    LET book == Head(books)
        nBookTitleS == normalize(book.title)
        bookScore == bookScore2(nBookTitleS, t)
        scored == IF bookScore > best.bestBookScore
                  THEN [best EXCEPT !.bestBookScore = bookScore,
                                    !.bestBookId = book.id]
                  ELSE best
    IN IF nBookTitleS = << >>
       THEN scoreBooks(Tail(books), best, t)
       ELSE scoreBooks(Tail(books),
                       checkTopicsRecursively(book.topics, 0, scored,
                                              book.id, t),
                       t)

TOPIC_THRESHOLD == 3

BOOK_THRESHOLD == 2

\* the decision over the best scores found
decide(best) ==
  IF best.bestTopicScore >= 2 * TOPIC_THRESHOLD
     /\ best.bestTopicBookId # "" /\ best.bestTopicId # ""
  THEN [bookId |-> best.bestTopicBookId, topicId |-> best.bestTopicId]
  ELSE IF best.bestBookScore >= 2 * BOOK_THRESHOLD /\ best.bestBookId # ""
  THEN [bookId |-> best.bestBookId, topicId |-> ""]
  ELSE Null

mapQuestionToSyllabus(q, preset, meta, bankTitle) ==
  IF preset = Null THEN Null
  ELSE IF manualAssignment(q, preset, meta) # Null
  THEN manualAssignment(q, preset, meta)
  ELSE decide(scoreBooks(preset.books, NoBest, questionTexts(q, bankTitle)))

(***************************************************************************)
(* normalizeSyllabusJson, from the parsed value on (Null when no block was *)
(* found or it did not parse).  An absent field is Null.  The source       *)
(* supplies no id, so every id is the one slugId generates; the string     *)
(* prefix-base-idx is kept as its three parts, which determine it and are  *)
(* determined by it (idx is a number and base never ends in a hyphen).     *)
(* The name of the preset is left out.                                     *)
(***************************************************************************)
NoSylIn == [kind |-> "none"]

NoSylOut == [state |-> "idle"]

NoPresets == << >>

NoSelection == [prefix |-> "", base |-> << >>, idx |-> 0]

Thrown == [ok |-> FALSE]

\* the characters outside [a-z0-9\u4e00-\u9fa5], among those of the model
IsSlugSeparator(c) == c \in {" ", "!", "-", ","}

\* replace(/[^a-z0-9\u4e00-\u9fa5]+/g, '-')
RECURSIVE replaceRuns(_, _)
replaceRuns(chars, inRun) ==
  IF chars = << >> THEN << >>
  ELSE IF IsSlugSeparator(Head(chars))
  THEN (IF inRun THEN << >> ELSE <<"-">>) \o replaceRuns(Tail(chars), TRUE)
  ELSE <<Head(chars)>> \o replaceRuns(Tail(chars), FALSE)

\* replace(/-+$/, '')
RECURSIVE stripHyphens(_)
stripHyphens(chars) ==
  IF chars # << >> /\ chars[Len(chars)] = "-"
  THEN stripHyphens(SubSeq(chars, 1, Len(chars) - 1))
  ELSE chars

slugId(prefix, title, idx) ==
  LET trimmed == trim(title)
      lowered == [i \in 1..Len(trimmed) |-> toLowerCase(trimmed[i])]
      base == stripHyphens(replaceRuns(lowered, FALSE))
  IN [prefix |-> prefix,
      base |-> IF base = << >> THEN <<"i", "t", "e", "m">> ELSE base,
      idx |-> idx]

\* a ?? b
Coalesce(a, b) == IF a # Null THEN a ELSE b

RECURSIVE processTopics(_, _)
RECURSIVE processTopic(_, _)
RECURSIVE processTopics_DropInvalid(_, _)
processTopics_DropInvalid(topicsRaw, ti) ==
  IF topicsRaw = << >> THEN [ok |-> TRUE, topics |-> << >>]
  ELSE
    LET first == processTopic(Head(topicsRaw), ti)
        rest == processTopics_DropInvalid(Tail(topicsRaw), ti + 1)
    IN [ok |-> TRUE,
        topics |-> (IF first.ok THEN <<first.topic>> ELSE << >>)
                     \o rest.topics]

processTopic(t, ti) ==
  IF t.kind = "string"
  THEN [ok |-> TRUE,
        topic |-> [id |-> slugId("topic", t.chars, ti),
                   title |-> trim(t.chars), topics |-> << >>]]
  ELSE IF t.kind = "object"
  THEN
    LET topicTitle == Coalesce(t.title, t.name)
        subTopics == IF IsArray(t.topics) THEN processTopics(t.topics.elems, 0)
                     ELSE IF IsArray(t.subtopics)
                     THEN processTopics(t.subtopics.elems, 0)
                     ELSE IF IsArray(t.children)
                     THEN processTopics(t.children.elems, 0)
                     ELSE [ok |-> TRUE, topics |-> << >>]
    IN IF topicTitle = Null \/ topicTitle.chars = << >> THEN Thrown
       ELSE IF ~subTopics.ok THEN Thrown
       ELSE [ok |-> TRUE,
             topic |-> [id |-> slugId("topic", topicTitle.chars, ti),
                        title |-> trim(topicTitle.chars),
                        topics |-> subTopics.topics]]
  ELSE Thrown

\* topicsRaw.map from index ti on
processTopics(topicsRaw, ti) ==
  IF topicsRaw = << >> THEN [ok |-> TRUE, topics |-> << >>]
  ELSE
    LET first == processTopic(Head(topicsRaw), ti)
        rest == processTopics(Tail(topicsRaw), ti + 1)
    IN IF ~first.ok \/ ~rest.ok THEN Thrown
       ELSE [ok |-> TRUE, topics |-> <<first.topic>> \o rest.topics]

DigitChars == <<"1", "2", "3", "4">>

\* books.map from index bi on; a book that is null throws on b.title, and
\* the two characters of the default title are written s and b
RECURSIVE normBooks(_, _)
normBooks(books, bi) ==
  IF books = << >> THEN [ok |-> TRUE, books |-> << >>]
  ELSE
    LET b == Head(books)
        bTitle == Coalesce(Coalesce(b.title, b.name),
                           Str(<<"s", "b", DigitChars[bi + 1]>>)).chars
        topicsRaw == IF IsArray(b.topics) THEN b.topics.elems
                     ELSE IF IsArray(b.modules) THEN b.modules.elems
                     ELSE << >>
        normTopics == processTopics(topicsRaw, 0)
        rest == normBooks(Tail(books), bi + 1)
    IN IF b = Null THEN Thrown
       ELSE IF ~normTopics.ok \/ ~rest.ok THEN Thrown
       ELSE [ok |-> TRUE,
             books |-> <<[id |-> slugId("book", bTitle, bi), title |-> bTitle,
                          topics |-> normTopics.topics]>> \o rest.books]

\* the books array of the parsed value, Null when there is none
locateBooks(rawObj) ==
  IF IsArray(rawObj) THEN rawObj
  ELSE IF IsArray(rawObj.books) THEN rawObj.books
  ELSE IF rawObj.preset # Null /\ IsArray(rawObj.preset.books)
  THEN rawObj.preset.books
  ELSE IF IsArray(rawObj.data) THEN rawObj.data
  ELSE Null

\* now is Date.now() at the call
normalizeSyllabusJson(rawObj, now) ==
  IF rawObj = Null THEN Null
  ELSE IF locateBooks(rawObj) = Null THEN Null
  ELSE LET books == normBooks(locateBooks(rawObj).elems, 0)
       IN IF ~books.ok THEN Null
          ELSE [id |-> slugId("syllabus", <<"p", "r", "e", "s", "e", "t">>, now),
                books |-> books.books]

(***************************************************************************)
(* extractFirstJsonBlock.  A text is a sequence of tokens: the characters  *)
(* [ ] { } 0 " and the blank, the fence of three backquotes, and the word  *)
(* json.  With these tokens a JSON value is the number 0, a string, the    *)
(* empty object, or an array of at most one value.                         *)
(***************************************************************************)
NoJsonIn == << >>

NoJsonOut == [state |-> "idle"]

\* the token that stands for the three backquotes of a code fence
Fence == "fence"

Quote == "\""

RECURSIVE skipWs(_, _)
skipWs(s, i) ==
  IF i <= Len(s) /\ s[i] = " " THEN skipWs(s, i + 1) ELSE i

\* the position after the string that opens at i, 0 when it is not closed
RECURSIVE stringEnd(_, _)
stringEnd(s, k) ==
  IF k > Len(s) THEN 0
  ELSE IF s[k] = Quote THEN k + 1
  ELSE stringEnd(s, k + 1)

\* a token for a member name with its colon, as in "choices":
KeyTokens ==
  {"choices:", "message:", "content:", "candidates:", "parts:", "text:"}

\* the position after the JSON value that starts at i, 0 when there is none;
\* an object has at most one member
RECURSIVE valueEnd(_, _)
valueEnd(s, i) ==
  IF i > Len(s) THEN 0
  ELSE IF s[i] = "0" THEN i + 1
  ELSE IF s[i] = Quote THEN stringEnd(s, i + 1)
  ELSE IF s[i] = "{"
  THEN LET k == skipWs(s, i + 1)
           e == valueEnd(s, skipWs(s, k + 1))
           k2 == skipWs(s, e)
       IN IF k <= Len(s) /\ s[k] = "}" THEN k + 1
          ELSE IF k <= Len(s) /\ s[k] \in KeyTokens /\ e # 0
                  /\ k2 <= Len(s) /\ s[k2] = "}"
          THEN k2 + 1
          ELSE 0
  ELSE IF s[i] = "["
  THEN LET k == skipWs(s, i + 1)
           e == valueEnd(s, k)
           k2 == skipWs(s, e)
       IN IF k <= Len(s) /\ s[k] = "]" THEN k + 1
          ELSE IF e # 0 /\ k2 <= Len(s) /\ s[k2] = "]" THEN k2 + 1
          ELSE 0
  ELSE 0

\* JSON.parse(s): "fail" when it throws, else whether the value is truthy
JsonParse(s) ==
  LET k == skipWs(s, 1)
      e == valueEnd(s, k)
  IN IF e = 0 \/ skipWs(s, e) # Len(s) + 1 THEN "fail"
     ELSE IF s[k] = "0" \/ (s[k] = Quote /\ e = k + 2) THEN "falsy"
     ELSE "truthy"

\* if (tryJsonParse(s))
tryJsonParse(s) == JsonParse(s) = "truthy"

EmptyObject == [kind |-> "object", key |-> "", value |-> Null]

Member(key, value) == [kind |-> "object", key |-> key, value |-> value]

\* the value of the JSON value that starts at i, where valueEnd(s, i) # 0
RECURSIVE valueAt(_, _)
valueAt(s, i) ==
  IF s[i] = "0" THEN Num(0)
  ELSE IF s[i] = Quote THEN Str(SubSeq(s, i + 1, valueEnd(s, i) - 2))
  ELSE LET k == skipWs(s, i + 1)
       IN IF s[i] = "{"
          THEN IF s[k] = "}" THEN EmptyObject
               ELSE Member(s[k], valueAt(s, skipWs(s, k + 1)))
          ELSE IF s[k] = "]" THEN Arr(<< >>)
               ELSE Arr(<<valueAt(s, k)>>)

\* const asObj = tryJsonParse(s), Null for null and for every falsy value
asObject(s) == IF tryJsonParse(s) THEN valueAt(s, skipWs(s, 1)) ELSE Null

\* v.key and v?.key, Null for undefined
member(v, key) ==
  IF v.kind = "object" /\ v.key = key THEN v.value ELSE Null

\* v[0] and v?.[0] of an array, Null for undefined
first(v) ==
  IF v.kind = "array" /\ v.elems # << >> THEN v.elems[1] ELSE Null

truthy(v) ==
  \/ v.kind \in {"object", "array"}
  \/ v.kind = "string" /\ v.chars # << >>

\* asObj.choices[0]?.message?.content
choicesContent(asObj) ==
  member(member(first(member(asObj, "choices:")), "message:"), "content:")

\* asObj.candidates[0]?.content?.parts?.[0]?.text
candidatesText(asObj) ==
  member(first(member(member(first(member(asObj, "candidates:")),
                             "content:"), "parts:")), "text:")

\* raw.match(/(?:json)?\s*([\s\S]*?)/i)[1]: the lazy group ends the pattern,
\* so it matches the empty string
fenceCapture(raw) == << >>

\* the index of the first fence at or after i, 0 when there is none
RECURSIVE nextFence(_, _)
nextFence(raw, i) ==
  IF i > Len(raw) THEN 0
  ELSE IF raw[i] = Fence THEN i
  ELSE nextFence(raw, i + 1)

\* raw.match(/FENCE(?:json)?\s*([\s\S]*?)FENCE/i)[1], Null without a match
fencedBlock(raw) ==
  LET open == nextFence(raw, 1)
      tagged == IF open # 0 /\ open + 1 <= Len(raw) /\ raw[open + 1] = "json"
                THEN open + 2 ELSE open + 1
      from == skipWs(raw, tagged)
      close == nextFence(raw, from)
  IN IF open = 0 \/ close = 0 THEN Null
     ELSE Str(SubSeq(raw, from, close - 1))

\* replace(/^FENCE(?:json)?/i, "")
dropLeadingFence(s) ==
  IF s # << >> /\ s[1] = Fence
  THEN IF Len(s) >= 2 /\ s[2] = "json" THEN SubSeq(s, 3, Len(s))
       ELSE Tail(s)
  ELSE s

\* replace(/FENCE$/i, "")
dropTrailingFence(s) ==
  IF s # << >> /\ s[Len(s)] = Fence THEN SubSeq(s, 1, Len(s) - 1) ELSE s

stripCodeFences(raw) ==
  IF raw = << >> THEN << >>
  ELSE IF fenceCapture(raw) # << >> /\ fencedBlock(raw) # Null
          /\ fencedBlock(raw).chars # << >>
  THEN trim(fencedBlock(raw).chars)
  ELSE trim(dropTrailingFence(dropLeadingFence(trim(raw))))

IsOpener(ch) == ch \in {"{", "["}

Closer(ch) == IF ch = "{" THEN "}" ELSE "]"

\* the inner loop from j on: the index where depth returns to 0, 0 when the
\* text ends first
RECURSIVE balancedEnd(_, _, _, _)
balancedEnd(s, open, j, depth) ==
  IF j > Len(s) THEN 0
  ELSE LET d == IF s[j] = open THEN depth + 1
                ELSE IF s[j] = Closer(open) THEN depth - 1
                ELSE depth
       IN IF d = 0 THEN j ELSE balancedEnd(s, open, j + 1, d)

\* the fallback scan that gives up at the first candidate that fails
RECURSIVE scanFrom_FirstCandidateOnly(_, _)
scanFrom_FirstCandidateOnly(s, i) ==
  IF i > Len(s) THEN Null
  ELSE IF IsOpener(s[i]) /\ balancedEnd(s, s[i], i, 0) # 0
  THEN IF tryJsonParse(SubSeq(s, i, balancedEnd(s, s[i], i, 0)))
       THEN Str(SubSeq(s, i, balancedEnd(s, s[i], i, 0)))
       ELSE Null
  ELSE scanFrom_FirstCandidateOnly(s, i + 1)

\* the fallback scan from index i on
RECURSIVE scanFrom(_, _)
scanFrom(s, i) ==
  IF i > Len(s) THEN Null
  ELSE IF IsOpener(s[i]) /\ balancedEnd(s, s[i], i, 0) # 0
          /\ tryJsonParse(SubSeq(s, i, balancedEnd(s, s[i], i, 0)))
  THEN Str(SubSeq(s, i, balancedEnd(s, s[i], i, 0)))
  ELSE scanFrom(s, i + 1)

\* one envelope branch: Null when it is not taken or does not return; a
\* content that is no string has no match method, and the call throws
envelopeBranch(inner) ==
  LET innerStripped == stripCodeFences(inner.chars)
  IN IF ~truthy(inner) THEN Null
     ELSE IF inner.kind # "string" THEN Thrown
     ELSE IF tryJsonParse(innerStripped) THEN Str(innerStripped)
     ELSE Null

extractFirstJsonBlock(raw) ==
  LET s == stripCodeFences(raw)
      asObj == asObject(s)
  IN IF s = << >> THEN Null
     ELSE IF tryJsonParse(s) THEN Str(s)
     ELSE IF envelopeBranch(choicesContent(asObj)) # Null
     THEN envelopeBranch(choicesContent(asObj))
     ELSE IF envelopeBranch(candidatesText(asObj)) # Null
     THEN envelopeBranch(candidatesText(asObj))
     ELSE scanFrom(s, 1)

(***************************************************************************)
(* generateQuiz.  A question is its stem, a sequence of characters; the    *)
(* other fields of a generated question are copied unchanged when no       *)
(* syllabus book is selected for the run, which is the case modelled.  A   *)
(* bank is the numeral of its default title, its questionCount and its     *)
(* questions; its id, createdAt and sourceFiles are left out.              *)
(***************************************************************************)
NoToast == ""

Punctuation == {",", ".", ";", "!", "?", "-", "_", "(", ")", "[", "]", "'"}

\* toLowerCase, then whitespace and punctuation removed
normalizeQuestionText(text) ==
  SelectSeq([i \in 1..Len(text) |-> toLowerCase(text[i])],
            LAMBDA c : ~IsSpace(c) /\ c \notin Punctuation)

\* Math.max(1, Math.min(batchSize, totalCount))
safeBatchSize(size, totalCount) == Max2(1, Min2(size, totalCount))

\* Math.ceil(totalCount / safeBatchSize)
batches(size, totalCount) ==
  (totalCount + safeBatchSize(size, totalCount) - 1)
    \div safeBatchSize(size, totalCount)

\* history.forEach(bank => bank.questions.forEach(q => existingSet.add(...)))
existingKeys(banks) ==
  UNION {{normalizeQuestionText(banks[b].questions[k].stem) :
            k \in DOMAIN banks[b].questions} : b \in DOMAIN banks}

\* batchQuestions.forEach: a question is pushed unless its key is known
RECURSIVE pushNew(_, _, _)
pushNew(batchQuestions, all, keys) ==
  IF batchQuestions = << >> THEN [all |-> all, keys |-> keys]
  ELSE LET q == Head(batchQuestions)
           key == normalizeQuestionText(q.stem)
       IN IF key \in keys THEN pushNew(Tail(batchQuestions), all, keys)
          ELSE pushNew(Tail(batchQuestions), Append(all, q), keys \cup {key})

newBank(questions, banks) ==
  [title |-> Len(banks) + 1,
   questionCount |-> Len(questions),
   questions |-> questions]

(***************************************************************************)
(* callLLM with the gemini-native protocol.  A response is its status,     *)
(* whether its body is JSON, and the texts of candidates[0].content.parts  *)
(* of a JSON body; res also carries the version path it answers.  The      *)
(* error thrown keeps the status, not the message.                         *)
(***************************************************************************)
NoRes == [version |-> "", status |-> 0, json |-> FALSE, parts |-> << >>]

NoOutcome == [kind |-> "pending"]

\* res.ok
ok(status) == status >= 200 /\ status <= 299

\* a retry on every response that is not ok
retriesWithV1_OnAnyError(status) == ~ok(status)

\* if (res.status === 404)
retriesWithV1(status) == status = 404

\* parts.map(p => p.text || '').join('')
RECURSIVE joinParts(_)
joinParts(parts) ==
  IF parts = << >> THEN << >> ELSE Head(parts) \o joinParts(Tail(parts))

\* from if (!res.ok) on: what the call throws or returns for the response
outcomeOf(response) ==
  IF ~ok(response.status)
  THEN [kind |-> "error", reason |-> "status", status |-> response.status]
  ELSE IF ~response.json
  THEN [kind |-> "error", reason |-> "json", status |-> response.status]
  ELSE IF joinParts(response.parts) = << >>
  THEN [kind |-> "error", reason |-> "no content", status |-> response.status]
  ELSE [kind |-> "text", text |-> joinParts(response.parts)]

(***************************************************************************)
(* Progress store                                                          *)
(***************************************************************************)
loadProgress(st, key) == IF key \in DOMAIN st THEN <<st[key]>> ELSE << >>

\* saveProgress writing a map of the saved key alone
saveProgress_KeyAlone(st, key, progress) == Put(EmptyMap, key, progress)

saveProgress(st, key, progress) == Put(st, key, progress)

clearProgress(st, key) == Remove(st, key)

\* the save effect with correctCount counting every answered entry
SaveProgressEffect_CountAll(st, scr, key, qd, idx, ans) ==
  IF scr # "quiz" \/ key = "" \/ Len(qd) = 0 THEN st
  ELSE LET answeredEntries == {id \in DOMAIN ans : id \in Range(qd)}
       IN saveProgress(st, key,
            [questionIds |-> qd,
             currentIndex |-> idx,
             answers |-> ans,
             answeredCount |-> Cardinality(answeredEntries),
             correctCount |-> Cardinality(answeredEntries)])

\* useEffect on [screen, sessionKey, quizData, currentQIndex, userAnswers]
SaveProgressEffect(st, scr, key, qd, idx, ans) ==
  IF scr # "quiz" \/ key = "" \/ Len(qd) = 0 THEN st
  ELSE LET allQuestionIds == qd
           answeredEntries == {id \in DOMAIN ans : id \in Range(allQuestionIds)}
           answeredCount == Cardinality(answeredEntries)
           correctCount == Cardinality({id \in answeredEntries : ans[id].isCorrect})
       IN saveProgress(st, key,
            [questionIds |-> allQuestionIds,
             currentIndex |-> idx,
             answers |-> ans,
             answeredCount |-> answeredCount,
             correctCount |-> correctCount])

(***************************************************************************)
(* Session controller                                                      *)
(***************************************************************************)
NoDialog == [visible |-> FALSE]

DefaultQuizSettings ==
  [mode |-> "practice", confirmSubmit |-> FALSE,
   autoNextCorrect |-> FALSE, autoNextWrong |-> FALSE]

SortIds(ids) == SortSeq(ids, LAMBDA a, b : a < b)

\* the comparison of startQuizWithResume made on the sets of ids
SameQuestionIds_AsSets(ordered, stored) ==
  /\ stored # << >>
  /\ Range(ordered) = Range(stored[1].questionIds)

\* the comparison of startQuizWithResume: stored is << >> or <<progress>>
SameQuestionIds(ordered, stored) ==
  LET idsNow == SortIds(ordered)
      idsStored == IF stored # << >> THEN SortIds(stored[1].questionIds) ELSE << >>
  IN /\ stored # << >>
     /\ Len(idsNow) = Len(idsStored)
     /\ \A i \in DOMAIN idsNow : idsNow[i] = idsStored[i]

\* a modal overlay covers the page while the resume choice is shown
UiFree == resumeDialog = NoDialog

\* renderQuiz renders nothing when quizData[currentQIndex] is undefined
QuizUi ==
  /\ UiFree
  /\ screen = "quiz"
  /\ currentQIndex + 1 \in DOMAIN quizData

currentQ == Question(quizData[currentQIndex + 1])

isLastQuestion == currentQIndex = Len(quizData) - 1

\* navigateTo: the screen changes when its 10 ms timer fires
navigateTo(newScreen) ==
  /\ Len(pendingNav) < MaxPendingNav
  /\ pendingNav' = Append(pendingNav, newScreen)

\* openQuizSession, followed by the save effect of the render it causes
openQuizSession(key, questions, initialIndex, restoredAnswers, st) ==
  /\ sessionKey' = key
  /\ quizData' = questions
  /\ currentQIndex' = initialIndex
  /\ userAnswers' = restoredAnswers
  /\ tempSelection' = << >>
  /\ navigateTo("quiz")
  /\ store' = SaveProgressEffect(st, screen, key, questions, initialIndex,
                                 restoredAnswers)
  /\ UNCHANGED <<screen, quizSettings, mistakes, timers>>

prepareOrderedQuestions(questions) == questions

startQuizWithResume(key, questions) ==
  /\ LET ordered == prepareOrderedQuestions(questions)
         stored == loadProgress(store, key)
     IN IF SameQuestionIds(ordered, stored)
        THEN /\ resumeDialog' = [visible |-> TRUE, sessionKey |-> key,
                                 questions |-> ordered, stored |-> stored[1]]
             /\ UNCHANGED <<screen, pendingNav, quizSettings, sessionKey,
                            quizData, currentQIndex, userAnswers,
                            tempSelection, mistakes, store, timers>>
        ELSE /\ openQuizSession(key, ordered, 0, EmptyMap, store)
             /\ UNCHANGED resumeDialog

\* handleResumeConfirm passing the stored index as it is
handleResumeConfirm_NoClamp ==
  /\ resumeDialog # NoDialog
  /\ openQuizSession(resumeDialog.sessionKey, resumeDialog.questions,
        resumeDialog.stored.currentIndex, resumeDialog.stored.answers, store)
  /\ resumeDialog' = NoDialog

handleResumeConfirm ==
  /\ resumeDialog # NoDialog
  /\ openQuizSession(resumeDialog.sessionKey, resumeDialog.questions,
        Min2(Max2(resumeDialog.stored.currentIndex, 0),
             Len(resumeDialog.questions) - 1),
        resumeDialog.stored.answers, store)
  /\ resumeDialog' = NoDialog

\* handleResumeRestart without its call of clearProgress
handleResumeRestart_KeepStored ==
  /\ resumeDialog # NoDialog
  /\ openQuizSession(resumeDialog.sessionKey, resumeDialog.questions, 0,
        EmptyMap, store)
  /\ resumeDialog' = NoDialog

handleResumeRestart ==
  /\ resumeDialog # NoDialog
  /\ openQuizSession(resumeDialog.sessionKey, resumeDialog.questions, 0,
        EmptyMap, clearProgress(store, resumeDialog.sessionKey))
  /\ resumeDialog' = NoDialog

\* the timer of navigateTo clearing the progress when the result view opens
NavigateFire_ClearOnResult ==
  /\ pendingNav # << >>
  /\ screen' = Head(pendingNav)
  /\ pendingNav' = Tail(pendingNav)
  /\ store' = IF Head(pendingNav) = "result"
              THEN clearProgress(store, sessionKey)
              ELSE SaveProgressEffect(store, Head(pendingNav), sessionKey,
                                      quizData, currentQIndex, userAnswers)
  /\ UNCHANGED <<quizSettings, sessionKey, quizData, currentQIndex,
                 userAnswers, tempSelection, mistakes, resumeDialog, timers>>

\* the timer of navigateTo fires: setScreen, then the save effect
NavigateFire ==
  /\ pendingNav # << >>
  /\ screen' = Head(pendingNav)
  /\ pendingNav' = Tail(pendingNav)
  /\ store' = SaveProgressEffect(store, Head(pendingNav), sessionKey, quizData,
                                 currentQIndex, userAnswers)
  /\ UNCHANGED <<quizSettings, sessionKey, quizData, currentQIndex,
                 userAnswers, tempSelection, mistakes, resumeDialog, timers>>

\* submitAnswer adding a mistake entry on every incorrect submission
submitAnswer_NoDedupe(selected) ==
  /\ IF quizSettings.mode = "review" \/ Len(selected) = 0
     THEN UNCHANGED sessionVars
     ELSE LET isCorrect == checkAnswerIsCorrect(currentQ, selected)
              shouldAutoNext ==
                \/ quizSettings.mode = "exam"
                \/ /\ quizSettings.mode = "practice"
                   /\ IF isCorrect THEN quizSettings.autoNextCorrect
                                   ELSE quizSettings.autoNextWrong
              answers == Put(userAnswers, currentQ.id,
                             [answerIds |-> selected, isCorrect |-> isCorrect])
          IN /\ shouldAutoNext => Len(timers) < MaxTimers
             /\ userAnswers' = answers
             /\ tempSelection' = << >>
             /\ mistakes' =
                  IF ~isCorrect
                  THEN <<[id |-> currentQ.id, userAnswer |-> selected]>>
                       \o mistakes
                  ELSE mistakes
             /\ timers' =
                  IF shouldAutoNext
                  THEN Append(timers, [idx |-> currentQIndex,
                                       len |-> Len(quizData)])
                  ELSE timers
             /\ store' = SaveProgressEffect(store, screen, sessionKey,
                                            quizData, currentQIndex, answers)
             /\ UNCHANGED <<screen, pendingNav, quizSettings, sessionKey,
                            quizData, currentQIndex, resumeDialog>>

\* submitAnswer, called with the session in a state where the quiz is rendered
submitAnswer(selected) ==
  /\ IF quizSettings.mode = "review" \/ Len(selected) = 0
     THEN UNCHANGED sessionVars
     ELSE LET isCorrect == checkAnswerIsCorrect(currentQ, selected)
              shouldAutoNext ==
                \/ quizSettings.mode = "exam"
                \/ /\ quizSettings.mode = "practice"
                   /\ IF isCorrect THEN quizSettings.autoNextCorrect
                                   ELSE quizSettings.autoNextWrong
              answers == Put(userAnswers, currentQ.id,
                             [answerIds |-> selected, isCorrect |-> isCorrect])
          IN /\ shouldAutoNext => Len(timers) < MaxTimers
             /\ userAnswers' = answers
             /\ tempSelection' = << >>
             /\ mistakes' =
                  IF ~isCorrect /\ ~(\E i \in DOMAIN mistakes :
                                        mistakes[i].id = currentQ.id)
                  THEN <<[id |-> currentQ.id, userAnswer |-> selected]>>
                       \o mistakes
                  ELSE mistakes
             /\ timers' =
                  IF shouldAutoNext
                  THEN Append(timers, [idx |-> currentQIndex,
                                       len |-> Len(quizData)])
                  ELSE timers
             /\ store' = SaveProgressEffect(store, screen, sessionKey,
                                            quizData, currentQIndex, answers)
             /\ UNCHANGED <<screen, pendingNav, quizSettings, sessionKey,
                            quizData, currentQIndex, resumeDialog>>

ToggleSelection(prev, letter) ==
  IF letter \in Range(prev)
  THEN SelectSeq(prev, LAMBDA l : l # letter)
  ELSE SortSeq(Append(prev, letter),
               LAMBDA a, b : LetterRank(a) < LetterRank(b))

\* handleSelectOption without its early return in review mode
handleSelectOption_NoReview(letter) ==
  /\ QuizUi
  /\ IF currentQ.id \in DOMAIN userAnswers
     THEN UNCHANGED sessionVars
     ELSE IF currentQ.type = "multiple"
     THEN /\ tempSelection' = ToggleSelection(tempSelection, letter)
          /\ UNCHANGED <<screen, pendingNav, quizSettings, sessionKey,
                         quizData, currentQIndex, userAnswers, mistakes,
                         resumeDialog, store, timers>>
     ELSE IF quizSettings.confirmSubmit
     THEN /\ tempSelection' = <<letter>>
          /\ UNCHANGED <<screen, pendingNav, quizSettings, sessionKey,
                         quizData, currentQIndex, userAnswers, mistakes,
                         resumeDialog, store, timers>>
     ELSE submitAnswer(<<letter>>)

handleSelectOption(letter) ==
  /\ QuizUi
  /\ IF quizSettings.mode = "review" \/ currentQ.id \in DOMAIN userAnswers
     THEN UNCHANGED sessionVars
     ELSE IF currentQ.type = "multiple"
     THEN /\ tempSelection' = ToggleSelection(tempSelection, letter)
          /\ UNCHANGED <<screen, pendingNav, quizSettings, sessionKey,
                         quizData, currentQIndex, userAnswers, mistakes,
                         resumeDialog, store, timers>>
     ELSE IF quizSettings.confirmSubmit
     THEN /\ tempSelection' = <<letter>>
          /\ UNCHANGED <<screen, pendingNav, quizSettings, sessionKey,
                         quizData, currentQIndex, userAnswers, mistakes,
                         resumeDialog, store, timers>>
     ELSE submitAnswer(<<letter>>)

\* the confirm-submit button rendered on answered questions too
ConfirmSubmitVisible_OnAnswered ==
  /\ quizSettings.mode # "review"
  /\ currentQ.type = "multiple" \/ quizSettings.confirmSubmit
  /\ Len(tempSelection) > 0

\* the confirm-submit button is rendered under this condition
ConfirmSubmitVisible ==
  /\ quizSettings.mode # "review"
  /\ currentQ.id \notin DOMAIN userAnswers
  /\ currentQ.type = "multiple" \/ quizSettings.confirmSubmit
  /\ Len(tempSelection) > 0

ConfirmSubmit ==
  /\ QuizUi
  /\ ConfirmSubmitVisible
  /\ submitAnswer(tempSelection)

\* a handler that sets the current index, then the save effect
SetIndex(idx, clearSelection) ==
  /\ currentQIndex' = idx
  /\ tempSelection' = IF clearSelection THEN << >> ELSE tempSelection
  /\ store' = IF idx # currentQIndex
              THEN SaveProgressEffect(store, screen, sessionKey, quizData,
                                      idx, userAnswers)
              ELSE store
  /\ UNCHANGED <<screen, pendingNav, quizSettings, sessionKey, quizData,
                 userAnswers, mistakes, resumeDialog, timers>>

PrevQuestion ==
  /\ QuizUi
  /\ currentQIndex # 0
  /\ SetIndex(currentQIndex - 1, TRUE)

finishQuiz ==
  /\ navigateTo("result")
  /\ UNCHANGED <<screen, quizSettings, sessionKey, quizData, currentQIndex,
                 userAnswers, tempSelection, mistakes, resumeDialog, store,
                 timers>>

NextQuestion ==
  /\ QuizUi
  /\ IF isLastQuestion THEN finishQuiz
     ELSE SetIndex(currentQIndex + 1, TRUE)

AnswerSheetClick ==
  /\ QuizUi
  /\ \E index \in 0..(Len(quizData) - 1) :
       SetIndex(index, TRUE)

handleJumpToQuestion ==
  /\ QuizUi
  /\ \E value \in 0..(Len(quizData) + 1) :
       IF value < 1 \/ value > Len(quizData)
       THEN UNCHANGED sessionVars
       ELSE SetIndex(value - 1, FALSE)

EndQuiz ==
  /\ QuizUi
  /\ finishQuiz

\* restartProgress without the save effect that follows it
restartProgress_NoSave ==
  /\ QuizUi
  /\ currentQIndex' = 0
  /\ userAnswers' = EmptyMap
  /\ tempSelection' = << >>
  /\ store' = clearProgress(store, sessionKey)
  /\ UNCHANGED <<screen, pendingNav, quizSettings, sessionKey, quizData,
                 mistakes, resumeDialog, timers>>

\* restartProgress, then the save effect of the render it causes
restartProgress ==
  /\ QuizUi
  /\ currentQIndex' = 0
  /\ userAnswers' = EmptyMap
  /\ tempSelection' = << >>
  /\ store' = SaveProgressEffect(clearProgress(store, sessionKey), screen,
                                 sessionKey, quizData, 0, EmptyMap)
  /\ UNCHANGED <<screen, pendingNav, quizSettings, sessionKey, quizData,
                 mistakes, resumeDialog, timers>>

\* the buttons that leave a screen: each calls navigateTo
NavTargets(scr) ==
  CASE scr = "home" -> {"history", "mistakes"}
    [] scr = "history" -> {"home"}
    [] scr = "mistakes" -> {"home"}
    [] scr = "result" -> {"home", "mistakes"}
    [] scr = "quiz" -> {"home"}

Navigate ==
  /\ UiFree
  /\ screen = "quiz" => QuizUi
  /\ \E target \in NavTargets(screen) :
       /\ navigateTo(target)
       /\ UNCHANGED <<screen, quizSettings, sessionKey, quizData, currentQIndex,
                 userAnswers, tempSelection, mistakes, resumeDialog, store,
                 timers>>

\* an auto-advance timer of submitAnswer fires, then the save effect
AutoAdvanceFire ==
  \E i \in DOMAIN timers :
    LET advance == timers[i].idx < timers[i].len - 1
        idx == IF advance THEN currentQIndex + 1 ELSE currentQIndex
    IN /\ timers' = RemoveAt(timers, i)
       /\ currentQIndex' = idx
       /\ tempSelection' = IF advance THEN << >> ELSE tempSelection
       /\ store' = IF advance
                   THEN SaveProgressEffect(store, screen, sessionKey,
                                           quizData, idx, userAnswers)
                   ELSE store
       /\ UNCHANGED <<screen, pendingNav, quizSettings, sessionKey, quizData,
                      userAnswers, mistakes, resumeDialog>>

\* the settings panel of the home screen
SetQuizSettings ==
  /\ UiFree
  /\ screen = "home"
  /\ \/ \E m \in {"practice", "exam", "review"} :
          quizSettings' = [quizSettings EXCEPT !.mode = m]
     \/ /\ quizSettings.mode # "review"
        /\ quizSettings' = [quizSettings EXCEPT
                              !.confirmSubmit = ~quizSettings.confirmSubmit]
     \/ /\ quizSettings.mode = "practice"
        /\ \/ quizSettings' = [quizSettings EXCEPT
                !.autoNextCorrect = ~quizSettings.autoNextCorrect]
           \/ quizSettings' = [quizSettings EXCEPT
                !.autoNextWrong = ~quizSettings.autoNextWrong]
  /\ UNCHANGED <<screen, pendingNav, sessionKey, quizData, currentQIndex,
                 userAnswers, tempSelection, mistakes, resumeDialog, store,
                 timers>>

SelectOption == \E letter \in OptionIdSet : handleSelectOption(letter)

Init ==
  /\ screen = "home"
  /\ pendingNav = << >>
  /\ quizSettings = DefaultQuizSettings
  /\ sessionKey = ""
  /\ quizData = << >>
  /\ currentQIndex = 0
  /\ userAnswers = EmptyMap
  /\ tempSelection = << >>
  /\ mistakes = << >>
  /\ resumeDialog = NoDialog
  /\ store = EmptyMap
  /\ timers = << >>
  /\ normIn = NoItem
  /\ normOut = NormStart
  /\ mapIn = NoMapIn
  /\ mapOut = NoMapOut
  /\ sylIn = NoSylIn
  /\ sylOut = NoSylOut
  /\ syllabusPresets = NoPresets
  /\ selectedSyllabusId = NoSelection
  /\ jsonIn = NoJsonIn
  /\ jsonOut = NoJsonOut
  /\ history = << >>
  /\ numQuestions = 1
  /\ batchSize = 1
  /\ loading = FALSE
  /\ generationStage = "idle"
  /\ currentBatchIndex = 0
  /\ totalBatches = 0
  /\ allQuestions = << >>
  /\ existingSet = {}
  /\ toast = NoToast
  /\ geminiRequests = << >>
  /\ geminiRes = NoRes
  /\ llmOutcome = NoOutcome
  /\ mistakeTrash = << >>
  /\ questionMetaMap = EmptyMap

\* the practice button of a bank in the history view
loadHistoryQuiz(bankQuestions) ==
  /\ UiFree
  /\ screen = "history"
  /\ startQuizWithResume(buildBankSessionKey,
                         prepareOrderedQuestions(bankQuestions))

\* the practice button of a tag in the history view
startTagPractice(groupQuestions) ==
  /\ UiFree
  /\ screen = "history"
  /\ Len(groupQuestions) # 0
  /\ startQuizWithResume("tag:x", prepareOrderedQuestions(groupQuestions))

Next ==
  \/ loadHistoryQuiz(BankQuestions) /\ UNCHANGED pureVars
  \/ handleResumeConfirm /\ UNCHANGED pureVars
  \/ handleResumeRestart /\ UNCHANGED pureVars
  \/ NavigateFire /\ UNCHANGED pureVars
  \/ SelectOption /\ UNCHANGED pureVars
  \/ ConfirmSubmit /\ UNCHANGED pureVars
  \/ PrevQuestion /\ UNCHANGED pureVars
  \/ NextQuestion /\ UNCHANGED pureVars
  \/ AnswerSheetClick /\ UNCHANGED pureVars
  \/ handleJumpToQuestion /\ UNCHANGED pureVars
  \/ EndQuiz /\ UNCHANGED pureVars
  \/ restartProgress /\ UNCHANGED pureVars
  \/ Navigate /\ UNCHANGED pureVars
  \/ AutoAdvanceFire /\ UNCHANGED pureVars
  \/ SetQuizSettings /\ UNCHANGED pureVars

Spec == Init /\ [][Next]_vars

(***************************************************************************)
(* The mistakes collection and its trash.  removedAt is left out.  The     *)
(* handlers belong to the mistakes screen; the sessions run with the       *)
(* default settings.                                                       *)
(***************************************************************************)
WithoutId(items, id) == SelectSeq(items, LAMBDA m : m.id # id)

MistakesUi == UiFree /\ screen = "mistakes"

TrashFrame ==
  UNCHANGED <<screen, pendingNav, quizSettings, sessionKey, quizData,
              currentQIndex, userAnswers, tempSelection, resumeDialog, store,
              timers>>

moveMistakeToTrash ==
  /\ MistakesUi
  /\ Len(mistakeTrash) < MaxTrash
  /\ \E i \in DOMAIN mistakes :
       /\ mistakes' = WithoutId(mistakes, mistakes[i].id)
       /\ mistakeTrash' = <<mistakes[i]>> \o mistakeTrash
  /\ TrashFrame

confirmClearMistakes ==
  /\ MistakesUi
  /\ Len(mistakes) # 0
  /\ Len(mistakes) + Len(mistakeTrash) <= MaxTrash
  /\ mistakes' = << >>
  /\ mistakeTrash' = mistakes \o mistakeTrash
  /\ TrashFrame

confirmClearTrash ==
  /\ MistakesUi
  /\ mistakeTrash' = << >>
  /\ UNCHANGED mistakes
  /\ TrashFrame

restoreMistakeFromTrash ==
  /\ MistakesUi
  /\ \E i \in DOMAIN mistakeTrash :
       /\ mistakes' =
            IF \E k \in DOMAIN mistakes : mistakes[k].id = mistakeTrash[i].id
            THEN mistakes
            ELSE <<mistakeTrash[i]>> \o mistakes
       /\ mistakeTrash' = WithoutId(mistakeTrash, mistakeTrash[i].id)
  /\ TrashFrame

handleRestoreAllTrash ==
  /\ MistakesUi
  /\ Len(mistakeTrash) # 0
  /\ mistakes' = mistakes \o mistakeTrash
  /\ mistakeTrash' = << >>
  /\ TrashFrame

permanentlyDeleteFromTrash ==
  /\ MistakesUi
  /\ \E i \in DOMAIN mistakeTrash :
       mistakeTrash' = WithoutId(mistakeTrash, mistakeTrash[i].id)
  /\ UNCHANGED mistakes
  /\ TrashFrame

notTrashVars ==
  <<normVars, mapVars, sylVars, jsonVars, genVars, llmVars, metaVars>>

NextTrash ==
  \/ loadHistoryQuiz(BankQuestions) /\ UNCHANGED pureVars
  \/ handleResumeConfirm /\ UNCHANGED pureVars
  \/ handleResumeRestart /\ UNCHANGED pureVars
  \/ NavigateFire /\ UNCHANGED pureVars
  \/ SelectOption /\ UNCHANGED pureVars
  \/ ConfirmSubmit /\ UNCHANGED pureVars
  \/ NextQuestion /\ UNCHANGED pureVars
  \/ Navigate /\ UNCHANGED pureVars
  \/ moveMistakeToTrash /\ UNCHANGED notTrashVars
  \/ confirmClearMistakes /\ UNCHANGED notTrashVars
  \/ confirmClearTrash /\ UNCHANGED notTrashVars
  \/ restoreMistakeFromTrash /\ UNCHANGED notTrashVars
  \/ handleRestoreAllTrash /\ UNCHANGED notTrashVars
  \/ permanentlyDeleteFromTrash /\ UNCHANGED notTrashVars

SpecTrash == Init /\ [][NextTrash]_vars

(***************************************************************************)
(* Sessions under two keys: the bank and a tag scope over its questions,   *)
(* opened, answered, reset and restarted with the default settings.        *)
(***************************************************************************)
\* the questions of the tag scope, in the order of the group
TagQuestions == <<2, 1>>

NextKeys ==
  \/ loadHistoryQuiz(BankQuestions) /\ UNCHANGED pureVars
  \/ startTagPractice(TagQuestions) /\ UNCHANGED pureVars
  \/ handleResumeConfirm /\ UNCHANGED pureVars
  \/ handleResumeRestart /\ UNCHANGED pureVars
  \/ NavigateFire /\ UNCHANGED pureVars
  \/ SelectOption /\ UNCHANGED pureVars
  \/ ConfirmSubmit /\ UNCHANGED pureVars
  \/ NextQuestion /\ UNCHANGED pureVars
  \/ restartProgress /\ UNCHANGED pureVars
  \/ Navigate /\ UNCHANGED pureVars

SpecKeys == Init /\ [][NextKeys]_vars

(***************************************************************************)
(* Starting a scope over progress stored by earlier sessions               *)
(***************************************************************************)
\* the answers a stored record can hold for its questions
StoredAnswerMaps(questionIds) ==
  UNION {[S -> {<<"A">>, <<"A", "B">>}] : S \in SUBSET Range(questionIds)}

RecordOf(questionIds, idx, selections) ==
  SaveProgressEffect(EmptyMap, "quiz", "k", questionIds, idx,
    [id \in DOMAIN selections |->
       [answerIds |-> selections[id],
        isCorrect |-> checkAnswerIsCorrect(Question(id), selections[id])]])["k"]

\* the records the save effect can have written for a scope
StoredRecords ==
  UNION {{RecordOf(q, idx, sel) : idx \in 0..Min2(MaxStoredIndex, Len(q) + 1),
                                  sel \in StoredAnswerMaps(q)} :
         q \in QuestionLists}

\* the page is loaded with at most one record left by earlier sessions
InitStart ==
  /\ screen = "history"
  /\ pendingNav = << >>
  /\ quizSettings = DefaultQuizSettings
  /\ sessionKey = ""
  /\ quizData = << >>
  /\ currentQIndex = 0
  /\ userAnswers = EmptyMap
  /\ tempSelection = << >>
  /\ mistakes = << >>
  /\ resumeDialog = NoDialog
  /\ store \in {EmptyMap} \cup
               {Put(EmptyMap, key, r) : key \in SessionKeys, r \in StoredRecords}
  /\ timers = << >>
  /\ normIn = NoItem
  /\ normOut = NormStart
  /\ mapIn = NoMapIn
  /\ mapOut = NoMapOut
  /\ sylIn = NoSylIn
  /\ sylOut = NoSylOut
  /\ syllabusPresets = NoPresets
  /\ selectedSyllabusId = NoSelection
  /\ jsonIn = NoJsonIn
  /\ jsonOut = NoJsonOut
  /\ history = << >>
  /\ numQuestions = 1
  /\ batchSize = 1
  /\ loading = FALSE
  /\ generationStage = "idle"
  /\ currentBatchIndex = 0
  /\ totalBatches = 0
  /\ allQuestions = << >>
  /\ existingSet = {}
  /\ toast = NoToast
  /\ geminiRequests = << >>
  /\ geminiRes = NoRes
  /\ llmOutcome = NoOutcome
  /\ mistakeTrash = << >>
  /\ questionMetaMap = EmptyMap

NextStart ==
  \/ (\E q \in QuestionLists : loadHistoryQuiz(q)) /\ UNCHANGED pureVars
  \/ (\E q \in QuestionLists : startTagPractice(q)) /\ UNCHANGED pureVars
  \/ handleResumeConfirm /\ UNCHANGED pureVars
  \/ handleResumeRestart /\ UNCHANGED pureVars
  \/ NavigateFire /\ UNCHANGED pureVars

SpecStart == InitStart /\ [][NextStart]_vars

(***************************************************************************)
(* Normalizing an array of raw question elements                           *)
(***************************************************************************)
OptionLists == {<< >>,
                <<Str(<<"x">>), Str(<<"y">>)>>,
                <<Obj("b"), Str(<<"y">>)>>,
                <<Obj(NoId), Opt("b", <<"t">>)>>,
                <<Obj("B"), Obj(NoId)>>}

AnswerChars == {"A", "b", "Z", ",", " "}

AnswerElems == {Num(0), Num(5), Str(<<"A">>), Str(<<" ", "b">>), Null}

AnswerInputs ==
  {Null, Num(0), Num(1), Num(2)}
    \cup {Str(chars) : chars \in SeqsUpTo(AnswerChars, MaxAnswerChars)}
    \cup {Arr(elems) : elems \in SeqsUpTo(AnswerElems, MaxAnswerElems)}

RawItems ==
  {Null} \cup
  [kind : {"object"}, id : {NoItemId}, stem : {<< >>, <<"s">>},
   options : OptionLists,
   a : AnswerInputs, answerIndex : {Null, Num(1)}]

InitNorm ==
  /\ screen = "home"
  /\ pendingNav = << >>
  /\ quizSettings = DefaultQuizSettings
  /\ sessionKey = ""
  /\ quizData = << >>
  /\ currentQIndex = 0
  /\ userAnswers = EmptyMap
  /\ tempSelection = << >>
  /\ mistakes = << >>
  /\ resumeDialog = NoDialog
  /\ store = EmptyMap
  /\ timers = << >>
  /\ normIn = NoItem
  /\ normOut = NormStart
  /\ mapIn = NoMapIn
  /\ mapOut = NoMapOut
  /\ sylIn = NoSylIn
  /\ sylOut = NoSylOut
  /\ syllabusPresets = NoPresets
  /\ selectedSyllabusId = NoSelection
  /\ jsonIn = NoJsonIn
  /\ jsonOut = NoJsonOut
  /\ history = << >>
  /\ numQuestions = 1
  /\ batchSize = 1
  /\ loading = FALSE
  /\ generationStage = "idle"
  /\ currentBatchIndex = 0
  /\ totalBatches = 0
  /\ allQuestions = << >>
  /\ existingSet = {}
  /\ toast = NoToast
  /\ geminiRequests = << >>
  /\ geminiRes = NoRes
  /\ llmOutcome = NoOutcome
  /\ mistakeTrash = << >>
  /\ questionMetaMap = EmptyMap

\* arr.forEach handles the next element of the array
NormalizeItem ==
  /\ normOut.state = "running"
  /\ normOut.idx < MaxItems
  /\ \E item \in RawItems :
       /\ normIn' = item
       /\ normOut' = [state |-> "running", idx |-> normOut.idx + 1,
                      out |-> normalizeItem(normOut.out, item, normOut.idx)]

\* the array is exhausted: null when nothing was emitted, out otherwise
NormalizeReturn ==
  /\ normOut.state = "running"
  /\ normOut' = [normOut EXCEPT
                   !.state = IF normOut.out = << >> THEN "null" ELSE "returned"]
  /\ UNCHANGED normIn

SampleItems ==
  {Null} \cup
  [kind : {"object"}, id : {NoItemId}, stem : {<< >>, <<"s">>},
   options : {<< >>, <<Str(<<"x">>), Str(<<"y">>)>>},
   a : {Str(<<"A">>), Str(<<"Z">>)}, answerIndex : {Null}]

\* parsed values other than a bare array: nothing parsed, objects that wrap
\* an array of at most one element, an object that is one question, and
\* objects without any question array
QuizValues ==
  {Null,
   QuizValue(Null, Null, Null, Null, NoItem),
   QuizValue(Null, Null, QuizValue(Null, Null, Null, Null, NoItem), Null,
             NoItem)}
    \cup UNION {{QuizValue(Arr(items), Null, Null, Null, NoItem),
                 QuizValue(Null, Arr(items), Null, Null, NoItem),
                 QuizValue(Null, Null,
                           QuizValue(Arr(items), Null, Null, Null, NoItem),
                           Null, NoItem)} :
                 items \in SeqsUpTo(SampleItems, 1)}
    \cup UNION {{QuizValue(Null, Null, Null, Null, item),
                 QuizValue(Null, Null, Null, Arr(<< >>), item)} :
                 item \in SampleItems \ {Null}}

\* the whole call on a parsed value that is not a bare array
NormalizeValue ==
  /\ normOut = NormStart
  /\ \E rawObj \in QuizValues :
       LET result == normalizeQuizJson(rawObj)
       IN /\ normIn' = rawObj
          /\ normOut' = IF result = Null
                        THEN [state |-> "null", idx |-> 0, out |-> << >>]
                        ELSE [state |-> "returned",
                              idx |-> Len(result.elems),
                              out |-> result.elems]

\* the returned questions are exported as a bank and the file is imported
ReimportExported ==
  /\ normOut.state = "returned"
  /\ normOut' = [state |-> "reimported", idx |-> normOut.idx,
                 out |-> normOut.out,
                 again |-> normalizeQuizJson(exportQuizBankToJson(normOut.out))]
  /\ UNCHANGED normIn

NextNorm ==
  \/ NormalizeItem /\ UNCHANGED <<sessionVars, mapVars, sylVars, jsonVars, genVars, llmVars, trashVars, metaVars>>
  \/ NormalizeReturn /\ UNCHANGED <<sessionVars, mapVars, sylVars, jsonVars, genVars, llmVars, trashVars, metaVars>>
  \/ NormalizeValue /\ UNCHANGED <<sessionVars, mapVars, sylVars, jsonVars, genVars, llmVars, trashVars, metaVars>>
  \/ ReimportExported /\ UNCHANGED <<sessionVars, mapVars, sylVars, jsonVars, genVars, llmVars, trashVars, metaVars>>

SpecNorm == InitNorm /\ [][NextNorm]_vars

(***************************************************************************)
(* Classifying one question against a preset                               *)
(***************************************************************************)
BookIds == <<"b1", "b2">>

TopicIds == <<<<"t1.0", "t1.1", "t1.2", "t1.3", "t1.4", "t1.5">>,
              <<"t2.0", "t2.1", "t2.2", "t2.3", "t2.4", "t2.5">>>>

BookTitles == {<< >>, <<"H">>}

TopicTitles == {<< >>, <<"r">>, <<"k">>}

\* a chain of nested topics of book b, one per title, the first at depth d
RECURSIVE TopicChain(_, _, _)
TopicChain(b, titles, d) ==
  IF titles = << >> THEN << >>
  ELSE <<[id |-> TopicIds[b][d + 1], title |-> Head(titles),
          topics |-> TopicChain(b, Tail(titles), d + 1)]>>

BooksAt(b, depth) ==
  {[id |-> BookIds[b], title |-> title, topics |-> TopicChain(b, titles, 0)] :
     title \in BookTitles, titles \in SeqsUpTo(TopicTitles, depth)}

\* presets of one or two books; the second book has top-level topics only
Presets ==
  {[books |-> <<b>>] : b \in BooksAt(1, MaxTopicDepth)}
    \cup {[books |-> <<b, c>>] : b \in BooksAt(1, MaxTopicDepth),
                                 c \in BooksAt(2, 1)}

UnassignedQuestions ==
  [assignedBookId : {""}, assignedTopicId : {""},
   sourceDocument : {<< >>, <<"H", " ">>},
   stem : {<< >>, <<"r">>, <<"h">>},
   coreConcept : {<< >>, <<"r">>},
   analysis : {<< >>, <<"r">>}]

AssignedQuestions ==
  {[assignedBookId |-> a[1], assignedTopicId |-> a[2],
    sourceDocument |-> << >>, stem |-> stem,
    coreConcept |-> << >>, analysis |-> << >>] :
     a \in {<<"", "">>, <<"b2", "">>, <<"b1", "t1.0">>},
     stem \in {<< >>, <<"r">>}}

Metas ==
  {[assignedBookId |-> m[1], assignedTopicId |-> m[2]] :
     m \in {<<"b1", "">>, <<"b1", "t1.1">>, <<"b1", "zz">>, <<"b2", "t1.0">>,
            <<"bx", "other">>, <<"", "t1.0">>}}

MapInputs ==
  {[q |-> q, preset |-> Null, meta |-> NoMeta, bankTitle |-> << >>] :
     q \in AssignedQuestions}
    \cup [q : UnassignedQuestions, preset : Presets, meta : {NoMeta},
          bankTitle : {<< >>, <<"h">>, <<"r">>}]
    \cup [q : AssignedQuestions, preset : Presets, meta : Metas,
          bankTitle : {<< >>, <<"h">>}]

InitMap ==
  /\ screen = "home"
  /\ pendingNav = << >>
  /\ quizSettings = DefaultQuizSettings
  /\ sessionKey = ""
  /\ quizData = << >>
  /\ currentQIndex = 0
  /\ userAnswers = EmptyMap
  /\ tempSelection = << >>
  /\ mistakes = << >>
  /\ resumeDialog = NoDialog
  /\ store = EmptyMap
  /\ timers = << >>
  /\ normIn = NoItem
  /\ normOut = NormStart
  /\ mapIn \in MapInputs
  /\ mapOut = NoMapOut
  /\ sylIn = NoSylIn
  /\ sylOut = NoSylOut
  /\ syllabusPresets = NoPresets
  /\ selectedSyllabusId = NoSelection
  /\ jsonIn = NoJsonIn
  /\ jsonOut = NoJsonOut
  /\ history = << >>
  /\ numQuestions = 1
  /\ batchSize = 1
  /\ loading = FALSE
  /\ generationStage = "idle"
  /\ currentBatchIndex = 0
  /\ totalBatches = 0
  /\ allQuestions = << >>
  /\ existingSet = {}
  /\ toast = NoToast
  /\ geminiRequests = << >>
  /\ geminiRes = NoRes
  /\ llmOutcome = NoOutcome
  /\ mistakeTrash = << >>
  /\ questionMetaMap = EmptyMap

\* the call returns
MapQuestion ==
  /\ mapOut = NoMapOut
  /\ mapOut' = [state |-> "returned",
                result |-> mapQuestionToSyllabus(mapIn.q, mapIn.preset,
                                                 mapIn.meta, mapIn.bankTitle)]
  /\ UNCHANGED mapIn

NextMap == MapQuestion /\ UNCHANGED <<sessionVars, normVars, sylVars, jsonVars, genVars, llmVars, trashVars, metaVars>>

SpecMap == InitMap /\ [][NextMap]_vars

(***************************************************************************)
(* Classifying a question against presets with deeper topic trees          *)
(***************************************************************************)
\* a titled book b whose topics are one chain of at most depth levels
DeepBooks(b, depth) ==
  {[id |-> BookIds[b], title |-> <<"H">>, topics |-> TopicChain(b, titles, 0)] :
     titles \in SeqsUpTo(TopicTitles, depth)}

\* two books: the first one level deeper than the second
DeepPresets ==
  {[books |-> <<b, c>>] : b \in DeepBooks(1, MaxTopicDepth + 1),
                          c \in DeepBooks(2, MaxTopicDepth)}

DeepQuestions ==
  [assignedBookId : {""}, assignedTopicId : {""},
   sourceDocument : {<< >>},
   stem : {<<"r">>, <<"k">>},
   coreConcept : {<< >>, <<"r">>},
   analysis : {<< >>}]

DeepInputs ==
  [q : DeepQuestions, preset : DeepPresets, meta : {NoMeta},
   bankTitle : {<< >>, <<"k">>}]

InitDepth ==
  /\ screen = "home"
  /\ pendingNav = << >>
  /\ quizSettings = DefaultQuizSettings
  /\ sessionKey = ""
  /\ quizData = << >>
  /\ currentQIndex = 0
  /\ userAnswers = EmptyMap
  /\ tempSelection = << >>
  /\ mistakes = << >>
  /\ resumeDialog = NoDialog
  /\ store = EmptyMap
  /\ timers = << >>
  /\ normIn = NoItem
  /\ normOut = NormStart
  /\ mapIn \in DeepInputs
  /\ mapOut = NoMapOut
  /\ sylIn = NoSylIn
  /\ sylOut = NoSylOut
  /\ syllabusPresets = NoPresets
  /\ selectedSyllabusId = NoSelection
  /\ jsonIn = NoJsonIn
  /\ jsonOut = NoJsonOut
  /\ history = << >>
  /\ numQuestions = 1
  /\ batchSize = 1
  /\ loading = FALSE
  /\ generationStage = "idle"
  /\ currentBatchIndex = 0
  /\ totalBatches = 0
  /\ allQuestions = << >>
  /\ existingSet = {}
  /\ toast = NoToast
  /\ geminiRequests = << >>
  /\ geminiRes = NoRes
  /\ llmOutcome = NoOutcome
  /\ mistakeTrash = << >>
  /\ questionMetaMap = EmptyMap

SpecDepth == InitDepth /\ [][NextMap]_vars

(***************************************************************************)
(* Generating a syllabus preset from the response of the model             *)
(***************************************************************************)
TopicObj(title, name, topics, subtopics, children) ==
  [kind |-> "object", title |-> title, name |-> name, topics |-> topics,
   subtopics |-> subtopics, children |-> children]

UntitledTopic == TopicObj(Null, Null, Null, Null, Null)

RawLeafTopics ==
  {Str(<<"a">>),
   TopicObj(Str(<<"A", " ">>), Null, Null, Null, Null),
   TopicObj(Null, Str(<<"b", "!">>), Null, Null, Null),
   UntitledTopic}

RawSubtopicLists == SeqsUpTo(RawLeafTopics, MaxSubtopics)

RawTopLevelTopics ==
  RawLeafTopics
    \cup {TopicObj(Str(<<"a">>), Null, Arr(kids), Null, Null) :
            kids \in RawSubtopicLists \ {<< >>}}
    \cup {TopicObj(Str(<<"a">>), Null, Null, Arr(<<Str(<<"a">>)>>), Null),
          TopicObj(Str(<<"a">>), Null, Null, Null, Arr(<<UntitledTopic>>)),
          TopicObj(Null, Null, Arr(<<Str(<<"a">>)>>), Null, Null)}

RawBook(title, topics, modules) ==
  [kind |-> "object", title |-> title, name |-> Null, topics |-> topics,
   modules |-> modules]

\* a first book with no, one or two top-level topics
RawFirstBooks ==
  {RawBook(Str(<<"a">>), Arr(topics), Null) :
     topics \in {<< >>} \cup {<<t>> : t \in RawTopLevelTopics}
                \cup {<<t, u>> : t \in RawTopLevelTopics,
                                 u \in RawTopLevelTopics}}

\* a second book without a title, with at most one module, or null
RawSecondBooks ==
  {Null, RawBook(Null, Null, Null)}
    \cup {RawBook(Null, Null, Arr(<<t>>)) : t \in RawLeafTopics}

RawObject(books, preset, data) ==
  [kind |-> "object", books |-> books, preset |-> preset, data |-> data]

LLMError == [kind |-> "error"]

\* what callLLM gives: an error, or a response parsed to a value
SyllabusResponses ==
  {LLMError, Null, RawObject(Null, Null, Null)}
    \cup {Arr(<<b>>) : b \in RawFirstBooks}
    \cup {Arr(<<b, c>>) : b \in RawFirstBooks, c \in RawSecondBooks}
    \cup UNION {{RawObject(Arr(<<c>>), Null, Null),
                 RawObject(Null, RawObject(Arr(<<c>>), Null, Null), Null),
                 RawObject(Null, Null, Arr(<<c>>))} : c \in RawSecondBooks}

OldPreset ==
  [id |-> slugId("syllabus", <<"p", "r", "e", "s", "e", "t">>, 0),
   books |-> << >>]

InitSyl ==
  /\ screen = "home"
  /\ pendingNav = << >>
  /\ quizSettings = DefaultQuizSettings
  /\ sessionKey = ""
  /\ quizData = << >>
  /\ currentQIndex = 0
  /\ userAnswers = EmptyMap
  /\ tempSelection = << >>
  /\ mistakes = << >>
  /\ resumeDialog = NoDialog
  /\ store = EmptyMap
  /\ timers = << >>
  /\ normIn = NoItem
  /\ normOut = NormStart
  /\ mapIn = NoMapIn
  /\ mapOut = NoMapOut
  /\ sylIn = NoSylIn
  /\ sylOut = NoSylOut
  /\ syllabusPresets \in {NoPresets, <<OldPreset>>}
  /\ selectedSyllabusId \in
       {NoSelection} \cup {syllabusPresets[i].id : i \in 1..Len(syllabusPresets)}
  /\ jsonIn = NoJsonIn
  /\ jsonOut = NoJsonOut
  /\ history = << >>
  /\ numQuestions = 1
  /\ batchSize = 1
  /\ loading = FALSE
  /\ generationStage = "idle"
  /\ currentBatchIndex = 0
  /\ totalBatches = 0
  /\ allQuestions = << >>
  /\ existingSet = {}
  /\ toast = NoToast
  /\ geminiRequests = << >>
  /\ geminiRes = NoRes
  /\ llmOutcome = NoOutcome
  /\ mistakeTrash = << >>
  /\ questionMetaMap = EmptyMap

\* the whole handler for one response; setIsProcessingSyllabus, the text
\* inputs and the toast are left out
handleGenerateSyllabusPresetFromText ==
  /\ sylOut = NoSylOut
  /\ \E response \in SyllabusResponses :
       LET newPreset == IF response = LLMError THEN Null
                        ELSE normalizeSyllabusJson(response, 1)
       IN /\ sylIn' = response
          /\ sylOut' = [state |-> IF response = LLMError THEN "failed"
                                  ELSE "returned",
                        preset |-> newPreset]
          /\ IF newPreset = Null
             THEN UNCHANGED <<syllabusPresets, selectedSyllabusId>>
             ELSE /\ syllabusPresets' = <<newPreset>> \o syllabusPresets
                  /\ selectedSyllabusId' = newPreset.id

NextSyl ==
  handleGenerateSyllabusPresetFromText
    /\ UNCHANGED <<sessionVars, normVars, mapVars, jsonVars, genVars, llmVars, trashVars, metaVars>>

SpecSyl == InitSyl /\ [][NextSyl]_vars

(***************************************************************************)
(* Extracting the JSON block of a raw text                                 *)
(***************************************************************************)
JsonTokens == {"[", "]", "{", "}", "0", Quote, " ", Fence, "json"}

RawTexts == SeqsUpTo(JsonTokens, MaxRawLen)

InitJson ==
  /\ screen = "home"
  /\ pendingNav = << >>
  /\ quizSettings = DefaultQuizSettings
  /\ sessionKey = ""
  /\ quizData = << >>
  /\ currentQIndex = 0
  /\ userAnswers = EmptyMap
  /\ tempSelection = << >>
  /\ mistakes = << >>
  /\ resumeDialog = NoDialog
  /\ store = EmptyMap
  /\ timers = << >>
  /\ normIn = NoItem
  /\ normOut = NormStart
  /\ mapIn = NoMapIn
  /\ mapOut = NoMapOut
  /\ sylIn = NoSylIn
  /\ sylOut = NoSylOut
  /\ syllabusPresets = NoPresets
  /\ selectedSyllabusId = NoSelection
  /\ jsonIn \in RawTexts
  /\ jsonOut = NoJsonOut
  /\ history = << >>
  /\ numQuestions = 1
  /\ batchSize = 1
  /\ loading = FALSE
  /\ generationStage = "idle"
  /\ currentBatchIndex = 0
  /\ totalBatches = 0
  /\ allQuestions = << >>
  /\ existingSet = {}
  /\ toast = NoToast
  /\ geminiRequests = << >>
  /\ geminiRes = NoRes
  /\ llmOutcome = NoOutcome
  /\ mistakeTrash = << >>
  /\ questionMetaMap = EmptyMap

\* the call returns
ExtractBlock ==
  /\ jsonOut = NoJsonOut
  /\ jsonOut' = [state |-> "returned", block |-> extractFirstJsonBlock(jsonIn)]
  /\ UNCHANGED jsonIn

NextJson == ExtractBlock /\ UNCHANGED <<sessionVars, normVars, mapVars, sylVars, genVars, llmVars, trashVars, metaVars>>

SpecJson == InitJson /\ [][NextJson]_vars

(***************************************************************************)
(* Extracting the JSON block of an API envelope                            *)
(***************************************************************************)
\* the inner text is the content of a JSON string: it holds no quote
InnerTokens == JsonTokens \ {Quote}

InnerTexts == SeqsUpTo(InnerTokens, MaxInnerLen)

\* {"choices":[{"message":{"content":"..."}}]}
ChoicesEnvelope(inner) ==
  <<"{", "choices:", "[", "{", "message:", "{", "content:", Quote>>
    \o inner \o <<Quote, "}", "}", "]", "}">>

\* {"candidates":[{"content":{"parts":[{"text":"..."}]}}]}
CandidatesEnvelope(inner) ==
  <<"{", "candidates:", "[", "{", "content:", "{", "parts:", "[", "{",
    "text:", Quote>>
    \o inner \o <<Quote, "}", "]", "}", "}", "]", "}">>

\* the envelopes, bare and inside a code fence
EnvelopeTexts ==
  UNION {{ChoicesEnvelope(inner), CandidatesEnvelope(inner),
          <<Fence, "json", " ">> \o ChoicesEnvelope(inner) \o <<" ", Fence>>} :
           inner \in InnerTexts}

InitEnvelope ==
  /\ screen = "home"
  /\ pendingNav = << >>
  /\ quizSettings = DefaultQuizSettings
  /\ sessionKey = ""
  /\ quizData = << >>
  /\ currentQIndex = 0
  /\ userAnswers = EmptyMap
  /\ tempSelection = << >>
  /\ mistakes = << >>
  /\ resumeDialog = NoDialog
  /\ store = EmptyMap
  /\ timers = << >>
  /\ normIn = NoItem
  /\ normOut = NormStart
  /\ mapIn = NoMapIn
  /\ mapOut = NoMapOut
  /\ sylIn = NoSylIn
  /\ sylOut = NoSylOut
  /\ syllabusPresets = NoPresets
  /\ selectedSyllabusId = NoSelection
  /\ jsonIn \in EnvelopeTexts
  /\ jsonOut = NoJsonOut
  /\ history = << >>
  /\ numQuestions = 1
  /\ batchSize = 1
  /\ loading = FALSE
  /\ generationStage = "idle"
  /\ currentBatchIndex = 0
  /\ totalBatches = 0
  /\ allQuestions = << >>
  /\ existingSet = {}
  /\ toast = NoToast
  /\ geminiRequests = << >>
  /\ geminiRes = NoRes
  /\ llmOutcome = NoOutcome
  /\ mistakeTrash = << >>
  /\ questionMetaMap = EmptyMap

SpecEnvelope == InitEnvelope /\ [][NextJson]_vars

(***************************************************************************)
(* Generating a bank in batches                                            *)
(***************************************************************************)
Stems == {<<"A">>, <<"a", " ">>, <<"k">>, <<"H">>}

GeneratedQuestions == [stem : Stems]

\* what normalizeQuizJson makes of the text one call of the model returns
BatchResults ==
  {Null} \cup {Arr(qs) : qs \in SeqsUpTo(GeneratedQuestions, MaxReturned)}

EarlierBank == [title |-> 1, questionCount |-> 1, questions |-> <<[stem |-> <<"a">>]>>]

InitGen ==
  /\ screen = "home"
  /\ pendingNav = << >>
  /\ quizSettings = DefaultQuizSettings
  /\ sessionKey = ""
  /\ quizData = << >>
  /\ currentQIndex = 0
  /\ userAnswers = EmptyMap
  /\ tempSelection = << >>
  /\ mistakes = << >>
  /\ resumeDialog = NoDialog
  /\ store = EmptyMap
  /\ timers = << >>
  /\ normIn = NoItem
  /\ normOut = NormStart
  /\ mapIn = NoMapIn
  /\ mapOut = NoMapOut
  /\ sylIn = NoSylIn
  /\ sylOut = NoSylOut
  /\ syllabusPresets = NoPresets
  /\ selectedSyllabusId = NoSelection
  /\ jsonIn = NoJsonIn
  /\ jsonOut = NoJsonOut
  /\ history \in {<< >>, <<EarlierBank>>}
  /\ numQuestions \in 1..MaxNumQuestions
  /\ batchSize \in 1..MaxBatchSize
  /\ loading = FALSE
  /\ generationStage = "idle"
  /\ currentBatchIndex = 0
  /\ totalBatches = 0
  /\ allQuestions = << >>
  /\ existingSet = {}
  /\ toast = NoToast
  /\ geminiRequests = << >>
  /\ geminiRes = NoRes
  /\ llmOutcome = NoOutcome
  /\ mistakeTrash = << >>
  /\ questionMetaMap = EmptyMap

\* the finally block; the locals of the run end with it
generateQuizFinally ==
  /\ loading' = FALSE
  /\ generationStage' = "idle"
  /\ currentBatchIndex' = 0
  /\ totalBatches' = 0
  /\ allQuestions' = << >>
  /\ existingSet' = {}

\* the click, up to the first call of the model
generateQuiz ==
  /\ ~loading
  /\ Len(history) < MaxBanks
  /\ \E hasApiKey \in BOOLEAN, hasFiles \in BOOLEAN :
       IF ~hasApiKey
       THEN /\ toast' = "no api key"
            /\ UNCHANGED <<loading, generationStage, currentBatchIndex,
                           totalBatches, allQuestions, existingSet>>
       ELSE IF ~hasFiles
       THEN /\ toast' = "no files"
            /\ UNCHANGED <<loading, generationStage, currentBatchIndex,
                           totalBatches, allQuestions, existingSet>>
       ELSE /\ loading' = TRUE
            /\ generationStage' = "callingModel"
            /\ totalBatches' = batches(batchSize, numQuestions)
            /\ currentBatchIndex' = 1
            /\ allQuestions' = << >>
            /\ existingSet' = existingKeys(history)
            /\ UNCHANGED toast
  /\ UNCHANGED <<history, numQuestions, batchSize>>

\* await callLLM throws: catch, finally
callLLMThrows ==
  /\ generationStage = "callingModel"
  /\ toast' = "call failed"
  /\ generateQuizFinally
  /\ UNCHANGED <<history, numQuestions, batchSize>>

\* await callLLM returns: the rest of the iteration, then the next call, or
\* the commit, or catch and finally
callLLMReturns ==
  /\ generationStage = "callingModel"
  /\ \E validArr \in BatchResults :
       IF validArr = Null \/ validArr.elems = << >>
       THEN /\ toast' = "batch failed"
            /\ generateQuizFinally
            /\ UNCHANGED history
       ELSE LET pushed == pushNew(validArr.elems, allQuestions, existingSet)
            IN IF Len(pushed.all) < numQuestions
                  /\ currentBatchIndex < totalBatches
               THEN /\ currentBatchIndex' = currentBatchIndex + 1
                    /\ allQuestions' = pushed.all
                    /\ existingSet' = pushed.keys
                    /\ UNCHANGED <<history, loading, generationStage,
                                   totalBatches, toast>>
               ELSE IF pushed.all = << >>
               THEN /\ toast' = "nothing new"
                    /\ generateQuizFinally
                    /\ UNCHANGED history
               ELSE /\ history' = <<newBank(pushed.all, history)>> \o history
                    /\ toast' = "success"
                    /\ generateQuizFinally
  /\ UNCHANGED <<numQuestions, batchSize>>

NextGen ==
  \/ generateQuiz /\ UNCHANGED <<sessionVars, normVars, mapVars, sylVars, jsonVars, llmVars, trashVars, metaVars>>
  \/ callLLMThrows /\ UNCHANGED <<sessionVars, normVars, mapVars, sylVars, jsonVars, llmVars, trashVars, metaVars>>
  \/ callLLMReturns /\ UNCHANGED <<sessionVars, normVars, mapVars, sylVars, jsonVars, llmVars, trashVars, metaVars>>

SpecGen == InitGen /\ [][NextGen]_vars

(***************************************************************************)
(* One call of callLLM with the gemini-native protocol                     *)
(***************************************************************************)
Statuses == {200, 204, 400, 404, 429, 500}

PartTexts == {<< >>, <<"a">>, <<"b">>}

Responses ==
  [status : Statuses, json : {TRUE}, parts : SeqsUpTo(PartTexts, MaxParts)]
    \cup [status : Statuses, json : {FALSE}, parts : {<< >>}]

InitLLM ==
  /\ screen = "home"
  /\ pendingNav = << >>
  /\ quizSettings = DefaultQuizSettings
  /\ sessionKey = ""
  /\ quizData = << >>
  /\ currentQIndex = 0
  /\ userAnswers = EmptyMap
  /\ tempSelection = << >>
  /\ mistakes = << >>
  /\ resumeDialog = NoDialog
  /\ store = EmptyMap
  /\ timers = << >>
  /\ normIn = NoItem
  /\ normOut = NormStart
  /\ mapIn = NoMapIn
  /\ mapOut = NoMapOut
  /\ sylIn = NoSylIn
  /\ sylOut = NoSylOut
  /\ syllabusPresets = NoPresets
  /\ selectedSyllabusId = NoSelection
  /\ jsonIn = NoJsonIn
  /\ jsonOut = NoJsonOut
  /\ history = << >>
  /\ numQuestions = 1
  /\ batchSize = 1
  /\ loading = FALSE
  /\ generationStage = "idle"
  /\ currentBatchIndex = 0
  /\ totalBatches = 0
  /\ allQuestions = << >>
  /\ existingSet = {}
  /\ toast = NoToast
  /\ geminiRequests = << >>
  /\ geminiRes = NoRes
  /\ llmOutcome = NoOutcome
  /\ mistakeTrash = << >>
  /\ questionMetaMap = EmptyMap

\* the call, up to the first fetch
callLLM ==
  /\ llmOutcome = NoOutcome
  /\ geminiRequests = << >>
  /\ \E complete \in BOOLEAN :
       IF complete
       THEN /\ geminiRequests' = <<"v1beta">>
            /\ UNCHANGED <<geminiRes, llmOutcome>>
       ELSE /\ llmOutcome' = [kind |-> "error", reason |-> "config", status |-> 0]
            /\ UNCHANGED <<geminiRequests, geminiRes>>

\* await fetch rejects: the call throws
fetchRejects ==
  /\ llmOutcome = NoOutcome
  /\ geminiRequests # << >>
  /\ llmOutcome' = [kind |-> "error", reason |-> "network", status |-> 0]
  /\ UNCHANGED <<geminiRequests, geminiRes>>

\* await fetch resolves: the rest of the call up to the next fetch or its end
fetchResolves ==
  /\ llmOutcome = NoOutcome
  /\ geminiRequests # << >>
  /\ \E response \in Responses :
       /\ geminiRes' = [version |-> geminiRequests[Len(geminiRequests)],
                        status |-> response.status,
                        json |-> response.json,
                        parts |-> response.parts]
       /\ IF geminiRequests = <<"v1beta">> /\ retriesWithV1(response.status)
          THEN /\ geminiRequests' = Append(geminiRequests, "v1")
               /\ UNCHANGED llmOutcome
          ELSE /\ llmOutcome' = outcomeOf(response)
               /\ UNCHANGED geminiRequests

NextLLM ==
  \/ callLLM /\ UNCHANGED <<sessionVars, normVars, mapVars, sylVars, jsonVars, genVars, trashVars, metaVars>>
  \/ fetchRejects /\ UNCHANGED <<sessionVars, normVars, mapVars, sylVars, jsonVars, genVars, trashVars, metaVars>>
  \/ fetchResolves /\ UNCHANGED <<sessionVars, normVars, mapVars, sylVars, jsonVars, genVars, trashVars, metaVars>>

SpecLLM == InitLLM /\ [][NextLLM]_vars

(***************************************************************************)
(* Studying by book: groupedBySyllabus and the two buttons that start a    *)
(* session over its groups.  The result of groupedBySyllabus is the list   *)
(* of the placed questions, [id, bookId, topicId] in the order of history: *)
(* grouped[b].topics[t].questions are the entries of book b and topic t,   *)
(* grouped[b].otherQuestions the entries of book b with the topic "", and  *)
(* unmatched the entries with the book "".  The title of a bank is a text. *)
(***************************************************************************)
metaOf(metaMap, id) == IF id \in DOMAIN metaMap THEN metaMap[id] ELSE NoMeta

\* syllabusPresets.find(p => p.id === selectedSyllabusId), or Null
findPreset(presets, id) ==
  LET found == {i \in 1..Len(presets) : presets[i].id = id}
  IN IF found = {} THEN Null
     ELSE presets[CHOOSE i \in found : \A j \in found : i <= j]

\* the questions of the banks of history, each with the title of its bank
RECURSIVE bankItems(_)
bankItems(banks) ==
  IF banks = << >> THEN << >>
  ELSE [i \in DOMAIN Head(banks).questions |->
          [q |-> Head(banks).questions[i], title |-> Head(banks).title]]
       \o bankItems(Tail(banks))

\* seenIds: the first item of every question id
RECURSIVE firstOfEachId(_)
firstOfEachId(items) ==
  IF items = << >> THEN << >>
  ELSE <<Head(items)>>
       \o firstOfEachId(SelectSeq(Tail(items),
                                  LAMBDA x : x.q.id # Head(items).q.id))

placement(item, preset, metaMap) ==
  LET mapping == mapQuestionToSyllabus(item.q, preset,
                                       metaOf(metaMap, item.q.id), item.title)
      bi == IF mapping = Null THEN 0 ELSE findBook(preset.books, mapping.bookId)
  IN IF mapping = Null \/ bi = 0
     THEN [id |-> item.q.id, bookId |-> "", topicId |-> ""]
     ELSE [id |-> item.q.id, bookId |-> preset.books[bi].id,
           topicId |-> IF mapping.topicId # ""
                          /\ findTopicById(mapping.topicId,
                                           preset.books[bi].topics)
                       THEN mapping.topicId
                       ELSE ""]

groupedBySyllabus(banks, preset, metaMap) ==
  LET items == firstOfEachId(bankItems(banks))
  IN [i \in DOMAIN items |-> placement(items[i], preset, metaMap)]

idsOf(entries) == [i \in DOMAIN entries |-> entries[i].id]

topicQuestions(grouped, bookId, topicId) ==
  idsOf(SelectSeq(grouped,
                  LAMBDA g : g.bookId = bookId /\ g.topicId = topicId))

otherQuestions(grouped, bookId) == topicQuestions(grouped, bookId, "")

\* b.topics.forEach: the questions of the topics of the list itself
RECURSIVE listedTopicQuestions(_, _, _)
listedTopicQuestions(grouped, bookId, topics) ==
  IF topics = << >> THEN << >>
  ELSE topicQuestions(grouped, bookId, Head(topics).id)
       \o listedTopicQuestions(grouped, bookId, Tail(topics))

\* syllabus.books.forEach of handleStartWholeSyllabusQuiz
RECURSIVE wholeSyllabusQuestions(_, _)
wholeSyllabusQuestions(grouped, books) ==
  IF books = << >> THEN << >>
  ELSE listedTopicQuestions(grouped, Head(books).id, Head(books).topics)
       \o otherQuestions(grouped, Head(books).id)
       \o wholeSyllabusQuestions(grouped, Tail(books))

RECURSIVE Unique(_)
Unique(s) ==
  IF s = << >> THEN << >>
  ELSE <<Head(s)>> \o Unique(SelectSeq(Tail(s), LAMBDA x : x # Head(s)))

\* the keys of grouped[b].topics in the order of their insertion
groupedTopicIds(grouped, bookId) ==
  LET placed == SelectSeq(grouped,
                          LAMBDA g : g.bookId = bookId /\ g.topicId # "")
  IN Unique([i \in DOMAIN placed |-> placed[i].topicId])

RECURSIVE valuesQuestions(_, _, _)
valuesQuestions(grouped, bookId, topicIds) ==
  IF topicIds = << >> THEN << >>
  ELSE topicQuestions(grouped, bookId, Head(topicIds))
       \o valuesQuestions(grouped, bookId, Tail(topicIds))

\* the list of the practice button of a book
bookQuestions(grouped, bookId) ==
  valuesQuestions(grouped, bookId, groupedTopicIds(grouped, bookId))
    \o otherQuestions(grouped, bookId)

\* the only syllabus id of the model is the one of OldPreset
syllabusIdText(id) == IF id = OldPreset.id THEN "preset" ELSE "none"

buildBookSessionKey(syllabusId, bookId) ==
  "syllabus:" \o syllabusIdText(syllabusId) \o ":book:" \o bookId

buildSyllabusSessionKey(syllabusId) ==
  "syllabus:" \o syllabusIdText(syllabusId) \o ":all"

selectedSyllabus == findPreset(syllabusPresets, selectedSyllabusId)

grouped == groupedBySyllabus(history, selectedSyllabus, questionMetaMap)

handleStartWholeSyllabusQuiz ==
  /\ UiFree
  /\ screen = "history"
  /\ selectedSyllabus # Null
  /\ LET all == wholeSyllabusQuestions(grouped, selectedSyllabus.books)
     IN IF all = << >>
        THEN /\ toast' = "no matched questions"
             /\ UNCHANGED <<sessionVars, history, numQuestions, batchSize,
                            loading, generationStage, currentBatchIndex,
                            totalBatches, allQuestions, existingSet>>
        ELSE /\ startQuizWithResume(
                  buildSyllabusSessionKey(selectedSyllabusId), all)
             /\ UNCHANGED genVars
  /\ UNCHANGED <<normVars, mapVars, sylVars, jsonVars, llmVars, trashVars,
                 metaVars>>

\* the practice button on the card of a book; an empty book has no card
startBookPractice ==
  /\ UiFree
  /\ screen = "history"
  /\ selectedSyllabus # Null
  /\ \E i \in DOMAIN selectedSyllabus.books :
       LET book == selectedSyllabus.books[i]
       IN /\ bookQuestions(grouped, book.id) # << >>
          /\ startQuizWithResume(
               buildBookSessionKey(selectedSyllabus.id, book.id),
               prepareOrderedQuestions(bookQuestions(grouped, book.id)))

(***************************************************************************)
(* Sessions over the groups of a syllabus                                  *)
(***************************************************************************)
\* the first book with one top-level topic, with or without a subtopic
GroupBooks ==
  {[id |-> BookIds[1], title |-> <<"H">>,
    topics |-> TopicChain(1, titles, 0)] :
     titles \in {<<<<"r">>>>, <<<<"r">>, <<"k">>>>}}

GroupPresets ==
  {[id |-> OldPreset.id,
    books |-> <<b, [id |-> BookIds[2], title |-> << >>,
                    topics |-> TopicChain(2, <<<<"r">>>>, 0)]>>] :
     b \in GroupBooks}

HistoryQuestion(id, stem) ==
  [id |-> id, assignedBookId |-> "", assignedTopicId |-> "",
   sourceDocument |-> << >>, stem |-> stem, coreConcept |-> << >>,
   analysis |-> << >>]

\* one bank of the questions 1 and 2, or a second bank that repeats 1
GroupHistories ==
  {<<[title |-> title,
      questions |-> <<HistoryQuestion(1, stem), HistoryQuestion(2, << >>)>>]>>
     \o more :
     title \in {<< >>, <<"h">>}, stem \in {<< >>, <<"k">>},
     more \in {<< >>,
               <<[title |-> << >>,
                  questions |-> <<HistoryQuestion(1, << >>)>>]>>}}

GroupMetas ==
  {[assignedBookId |-> m[1], assignedTopicId |-> m[2]] :
     m \in {<<"", "">>, <<"b1", "">>, <<"b1", "t1.0">>, <<"b1", "t1.1">>,
            <<"b2", "t2.0">>}}

GroupMetaMaps == [QuestionIds -> GroupMetas]

InitGroup ==
  /\ screen = "home"
  /\ pendingNav = << >>
  /\ quizSettings = DefaultQuizSettings
  /\ sessionKey = ""
  /\ quizData = << >>
  /\ currentQIndex = 0
  /\ userAnswers = EmptyMap
  /\ tempSelection = << >>
  /\ mistakes = << >>
  /\ resumeDialog = NoDialog
  /\ store = EmptyMap
  /\ timers = << >>
  /\ normIn = NoItem
  /\ normOut = NormStart
  /\ mapIn = NoMapIn
  /\ mapOut = NoMapOut
  /\ sylIn = NoSylIn
  /\ sylOut = NoSylOut
  /\ syllabusPresets \in {<<p>> : p \in GroupPresets}
  /\ selectedSyllabusId = OldPreset.id
  /\ jsonIn = NoJsonIn
  /\ jsonOut = NoJsonOut
  /\ history \in GroupHistories
  /\ numQuestions = 1
  /\ batchSize = 1
  /\ loading = FALSE
  /\ generationStage = "idle"
  /\ currentBatchIndex = 0
  /\ totalBatches = 0
  /\ allQuestions = << >>
  /\ existingSet = {}
  /\ toast = NoToast
  /\ geminiRequests = << >>
  /\ geminiRes = NoRes
  /\ llmOutcome = NoOutcome
  /\ mistakeTrash = << >>
  /\ questionMetaMap \in GroupMetaMaps

NextGroup ==
  \/ handleStartWholeSyllabusQuiz
  \/ startBookPractice /\ UNCHANGED pureVars
  \/ handleResumeConfirm /\ UNCHANGED pureVars
  \/ handleResumeRestart /\ UNCHANGED pureVars
  \/ NavigateFire /\ UNCHANGED pureVars
  \/ NextQuestion /\ UNCHANGED pureVars
  \/ Navigate /\ UNCHANGED pureVars

SpecGroup == InitGroup /\ [][NextGroup]_vars

(***************************************************************************)
(* Claims on the session controller                                        *)
(***************************************************************************)
SessionOpenOnQuiz == screen = "quiz" /\ sessionKey # "" /\ Len(quizData) > 0

\* C3: while a session is open on the quiz screen, the progress stored under
\* the open sessionKey exists and has currentIndex equal to the current
\* index, answers equal to the answers map and questionIds equal to the
\* session's question ids in order, after every operation that changes the
\* index or the answers.
C3_StoredProgressFollowsSession ==
  SessionOpenOnQuiz =>
    /\ sessionKey \in DOMAIN store
    /\ store[sessionKey].currentIndex = currentQIndex
    /\ store[sessionKey].answers = userAnswers
    /\ store[sessionKey].questionIds = quizData

\* the session has moved to the second question and holds an answer, and the
\* stored record holds both
C3_Witness ==
  /\ SessionOpenOnQuiz
  /\ currentQIndex = 1
  /\ userAnswers # EmptyMap
  /\ sessionKey \in DOMAIN store
  /\ store[sessionKey].currentIndex = 1
  /\ store[sessionKey].answers = userAnswers

\* C4: in every stored progress record answeredCount is the number of
\* entries of answers whose key is in questionIds, correctCount the number
\* of those with isCorrect true, and
\* correctCount <= answeredCount <= questionIds.length.
C4_StoredCountsDerived ==
  \A key \in DOMAIN store :
    LET p == store[key]
        answered == {id \in DOMAIN p.answers : id \in Range(p.questionIds)}
    IN /\ p.answeredCount = Cardinality(answered)
       /\ p.correctCount = Cardinality({id \in answered : p.answers[id].isCorrect})
       /\ p.correctCount <= p.answeredCount
       /\ p.answeredCount <= Len(p.questionIds)

\* a stored record with two answered questions of which one is correct
C4_Witness ==
  \E key \in DOMAIN store :
    /\ store[key].answeredCount = 2
    /\ store[key].correctCount = 1

\* C8: every recorded answer has isCorrect true exactly when the set of the
\* selected ids equals the set of the question's answerIds; a strict subset,
\* a strict superset or a selection differing in one id is recorded as
\* incorrect.
C8_CorrectIffSameSet ==
  \A id \in DOMAIN userAnswers :
    userAnswers[id].isCorrect <=>
      Range(userAnswers[id].answerIds) = Range(Question(id).answerIds)

\* question 1 (answer A) recorded with the strict superset A, B as incorrect
\* and question 2 (answers A, B) recorded with A, B as correct
C8_Witness ==
  /\ DOMAIN userAnswers = {1, 2}
  /\ userAnswers[1] = [answerIds |-> <<"A", "B">>, isCorrect |-> FALSE]
  /\ userAnswers[2] = [answerIds |-> <<"A", "B">>, isCorrect |-> TRUE]

StoredCounts(st, key) ==
  IF key \in DOMAIN st
  THEN <<st[key].answeredCount, st[key].correctCount>>
  ELSE <<0, 0>>

\* steps that empty the answers map and go back to index 0
RestartOrReset == userAnswers' = EmptyMap /\ currentQIndex' = 0

\* C9: once a question has a recorded answer, no step changes or removes
\* that answer unless it is a restart or reset of the session (empty answers
\* map, index 0); a step that leaves the set of answered questions as it was
\* adds no mistake entry and leaves the stored counts as they were.
C9_AnsweredStep ==
  /\ \A id \in DOMAIN userAnswers :
        \/ id \in DOMAIN userAnswers' /\ userAnswers'[id] = userAnswers[id]
        \/ RestartOrReset
  /\ DOMAIN userAnswers' = DOMAIN userAnswers =>
        /\ mistakes' = mistakes
        /\ StoredCounts(store', sessionKey') = StoredCounts(store, sessionKey')

C9_AnsweredIsFinal == [][C9_AnsweredStep]_vars

\* question 1 is answered and is the current question, with a selection
\* pending and confirm-submit switched on
C9_Witness ==
  /\ QuizUi
  /\ currentQ.id \in DOMAIN userAnswers
  /\ tempSelection # << >>
  /\ quizSettings.confirmSubmit
  /\ quizSettings.mode # "review"

\* C10: a step that records an incorrect answer for question q adds exactly
\* one entry for q, holding the submitted answer, in front of the mistakes
\* collection when no entry with q's id exists and leaves the collection
\* unchanged when one exists; a step that records a correct answer, and
\* every other step, leaves the collection unchanged.
C10_MistakesStep ==
  LET new == DOMAIN userAnswers' \ DOMAIN userAnswers
  IN IF \E id \in new :
          /\ ~userAnswers'[id].isCorrect
          /\ ~(\E i \in DOMAIN mistakes : mistakes[i].id = id)
     THEN \E id \in new :
            mistakes' = <<[id |-> id,
                           userAnswer |-> userAnswers'[id].answerIds]>>
                        \o mistakes
     ELSE mistakes' = mistakes

C10_MistakesOncePerQuestion == [][C10_MistakesStep]_vars

\* question 1 missed with B, reset, and missed again with A, B: the entry
\* of the first miss is the only one
C10_Witness ==
  /\ mistakes = <<[id |-> 1, userAnswer |-> <<"B">>]>>
  /\ 1 \in DOMAIN userAnswers
  /\ userAnswers[1] = [answerIds |-> <<"A", "B">>, isCorrect |-> FALSE]

\* C5: the restart choice of the resume dialog leaves no progress of the
\* earlier session under the key (no record, or the record of the new
\* session when the quiz screen is already shown) and opens the dialog's
\* questions at index 0 with an empty answers map; afterwards every record
\* written to the store is written under the open key with the session's
\* answers map, and an answer enters that map only by a submission on the
\* current question or by continuing from what the store holds.
C5_RestartStep ==
  /\ handleResumeRestart =>
        /\ sessionKey' = resumeDialog.sessionKey
        /\ quizData' = resumeDialog.questions
        /\ currentQIndex' = 0
        /\ userAnswers' = EmptyMap
        /\ resumeDialog' = NoDialog
        /\ IF screen = "quiz"
           THEN /\ store'[resumeDialog.sessionKey].answers = EmptyMap
                /\ store'[resumeDialog.sessionKey].currentIndex = 0
           ELSE resumeDialog.sessionKey \notin DOMAIN store'
  /\ \A k \in DOMAIN store' :
        (k \notin DOMAIN store \/ store'[k] # store[k]) =>
          k = sessionKey' /\ store'[k].answers = userAnswers'
  /\ \A id \in DOMAIN userAnswers' \ DOMAIN userAnswers :
        \/ QuizUi /\ id = currentQ.id
        \/ /\ resumeDialog # NoDialog
           /\ resumeDialog.sessionKey \in DOMAIN store
           /\ userAnswers' = store[resumeDialog.sessionKey].answers

C5_RestartDropsStored == [][C5_RestartStep]_vars

\* a session that recorded a miss was restarted from the resume dialog: the
\* key is gone from the store and the answers map is empty
C5_Witness ==
  /\ sessionKey = buildBankSessionKey
  /\ buildBankSessionKey \notin DOMAIN store
  /\ userAnswers = EmptyMap
  /\ mistakes # << >>
  /\ pendingNav = <<"quiz">>

\* C7: the step from the quiz screen to the result view leaves the store as
\* it is, holding the session's answers, index and question ids under the
\* session key; the end button and 'next' on the last question write
\* nothing; away from the quiz screen only the restart choice changes the
\* store; and starting the bank again with progress stored shows the
\* resume choice carrying that stored record.
C7_EndStep ==
  /\ (screen = "quiz" /\ screen' = "result" /\ SessionOpenOnQuiz) =>
        /\ store' = store
        /\ sessionKey \in DOMAIN store
        /\ store[sessionKey].answers = userAnswers
        /\ store[sessionKey].currentIndex = currentQIndex
        /\ store[sessionKey].questionIds = quizData
  /\ pendingNav' = Append(pendingNav, "result") => store' = store
  /\ (screen # "quiz" /\ screen' # "quiz" /\ store' # store) =>
        handleResumeRestart
  /\ (loadHistoryQuiz(BankQuestions) /\ buildBankSessionKey \in DOMAIN store) =>
        /\ resumeDialog' # NoDialog
        /\ resumeDialog'.sessionKey = buildBankSessionKey
        /\ resumeDialog'.stored = store[buildBankSessionKey]
        /\ store' = store

C7_EndKeepsProgress == [][C7_EndStep]_vars

\* the result view after a quiz that left answers and index 1 in the store
C7_Witness ==
  /\ screen = "result"
  /\ sessionKey \in DOMAIN store
  /\ userAnswers # EmptyMap
  /\ store[sessionKey].answers = userAnswers
  /\ store[sessionKey].currentIndex = 1

(***************************************************************************)
(* Claims on starting a scope                                              *)
(***************************************************************************)
\* the two lists hold the same ids the same number of times
SameIdsWithMultiplicity(a, b) ==
  /\ Len(a) = Len(b)
  /\ \A x \in Range(a) \cup Range(b) : Count(a, x) = Count(b, x)

\* C1: startQuizWithResume(key, questions) shows the resume choice, with
\* the record stored under key and the requested questions and without
\* touching the session, exactly when a record is stored under key and its
\* questionIds hold the same ids as the requested questions, each the same
\* number of times; in every other case no choice is shown and the session
\* of key opens over the requested questions at index 0 with no answers.
C1_StartStep ==
  \A key \in SessionKeys, questions \in QuestionLists :
    startQuizWithResume(key, questions) =>
      IF /\ key \in DOMAIN store
         /\ SameIdsWithMultiplicity(questions, store[key].questionIds)
      THEN /\ resumeDialog' = [visible |-> TRUE, sessionKey |-> key,
                               questions |-> questions, stored |-> store[key]]
           /\ UNCHANGED <<sessionKey, quizData, currentQIndex, userAnswers,
                          pendingNav, store>>
      ELSE /\ resumeDialog' = NoDialog
           /\ sessionKey' = key
           /\ quizData' = questions
           /\ currentQIndex' = 0
           /\ userAnswers' = EmptyMap
           /\ pendingNav' = Append(pendingNav, "quiz")

C1_ResumeOfferedIffSameIds == [][C1_StartStep]_vars

\* the resume choice shown for questions requested in another order than
\* the stored questionIds
C1_Witness ==
  /\ resumeDialog # NoDialog
  /\ resumeDialog.questions # resumeDialog.stored.questionIds
  /\ resumeDialog.stored.answers # EmptyMap

\* a fresh session opened although a record with the same set of ids, one of
\* them stored twice, is kept under the key
C1_WitnessFresh ==
  /\ resumeDialog = NoDialog
  /\ pendingNav = <<"quiz">>
  /\ sessionKey \in DOMAIN store
  /\ Range(store[sessionKey].questionIds) = Range(quizData)
  /\ Len(store[sessionKey].questionIds) # Len(quizData)
  /\ userAnswers = EmptyMap
  /\ currentQIndex = 0

\* C6: the continue choice of the resume dialog opens the dialog's key over
\* the requested questions in their own order, with the answers map equal
\* to the stored answers and the index equal to the stored currentIndex when
\* that is within 0..questions.length-1, and the nearest end of that range
\* otherwise.
C6_ContinueStep ==
  handleResumeConfirm =>
    LET stored == resumeDialog.stored
        last == Len(resumeDialog.questions) - 1
    IN /\ sessionKey' = resumeDialog.sessionKey
       /\ quizData' = resumeDialog.questions
       /\ userAnswers' = stored.answers
       /\ currentQIndex' \in 0..last
       /\ stored.currentIndex \in 0..last => currentQIndex' = stored.currentIndex
       /\ stored.currentIndex > last => currentQIndex' = last
       /\ stored.currentIndex < 0 => currentQIndex' = 0
       /\ resumeDialog' = NoDialog

C6_ContinueRestoresStored == [][C6_ContinueStep]_vars

\* continued from a record whose index lies past the last question and whose
\* questionIds are in another order than the requested questions
C6_Witness ==
  /\ resumeDialog = NoDialog
  /\ pendingNav = <<"quiz">>
  /\ sessionKey \in DOMAIN store
  /\ userAnswers # EmptyMap
  /\ userAnswers = store[sessionKey].answers
  /\ store[sessionKey].currentIndex > Len(quizData) - 1
  /\ currentQIndex = Len(quizData) - 1
  /\ quizData # store[sessionKey].questionIds

(***************************************************************************)
(* Claims on normalizeQuizJson                                             *)
(***************************************************************************)
\* C2: every question normalizeQuizJson emits has a non-empty answerIds
\* list whose ids are all ids of the question's options, so an element
\* whose answers resolve to nothing is not emitted.
C2_EmittedHaveAnswers ==
  normOut.state = "returned" =>
    \A i \in DOMAIN normOut.out :
      /\ normOut.out[i].answerIds # << >>
      /\ Range(normOut.out[i].answerIds) \subseteq
           Range(normOut.out[i].options)

\* what the code does keep: the ids of answerIds are ids of the options
C2_AnswerIdsAmongOptions ==
  \A i \in DOMAIN normOut.out :
    Range(normOut.out[i].answerIds) \subseteq Range(normOut.out[i].options)

(***************************************************************************)
(* Claims on review mode                                                   *)
(***************************************************************************)
\* C11: in review mode, on every question, a step of handleSelectOption
\* with any option and a step of submitAnswer with any selection leave the
\* answers map, the pending selection, the mistakes collection and the
\* store as they were.
C11_ReviewStep ==
  (quizSettings.mode = "review" /\ QuizUi) =>
    /\ \A letter \in OptionIdSet :
          handleSelectOption(letter) =>
            UNCHANGED <<userAnswers, tempSelection, mistakes, store>>
    /\ \A selected \in SeqsUpTo(OptionIdSet, Len(letters)) :
          submitAnswer(selected) =>
            UNCHANGED <<userAnswers, tempSelection, mistakes, store>>

C11_ReviewChangesNothing == [][C11_ReviewStep]_vars

\* a session continued in review mode, shown on the multiple question, which
\* has no recorded answer while another question has one
C11_Witness ==
  /\ QuizUi
  /\ quizSettings.mode = "review"
  /\ currentQ.type = "multiple"
  /\ currentQ.id \notin DOMAIN userAnswers
  /\ userAnswers # EmptyMap

(***************************************************************************)
(* Claims on mapQuestionToSyllabus                                         *)
(***************************************************************************)
PresetBookIds(preset) == {preset.books[i].id : i \in 1..Len(preset.books)}

\* what the scoring alone decides for the question being classified
ScoringDecision ==
  decide(scoreBooks(mapIn.preset.books, NoBest,
                    questionTexts(mapIn.q, mapIn.bankTitle)))

\* C12: when the metaMap entry of the question names a book of the preset,
\* the returned mapping carries that book id, whatever the question's own
\* assignedBookId is and whatever the scoring would have chosen.
C12_ManualOverrideWins ==
  (/\ mapOut.state = "returned"
   /\ mapIn.preset # Null
   /\ mapIn.meta.assignedBookId \in PresetBookIds(mapIn.preset))
    => /\ mapOut.result # Null
       /\ mapOut.result.bookId = mapIn.meta.assignedBookId

\* the override beats both a different assignedBookId on the question and a
\* scoring decision for another book
C12_Witness ==
  /\ mapOut.state = "returned"
  /\ mapIn.preset # Null
  /\ mapIn.meta.assignedBookId = "b1"
  /\ mapIn.q.assignedBookId = "b2"
  /\ "b2" \in PresetBookIds(mapIn.preset)
  /\ ScoringDecision # Null
  /\ ScoringDecision.bookId = "b2"
  /\ mapOut.result.bookId = "b1"

\* every topic of a list of topics, at any depth, with its depth
RECURSIVE TopicsWithin(_, _)
TopicsWithin(topics, depth) ==
  UNION {{[id |-> topics[i].id, title |-> topics[i].title, depth |-> depth]}
           \cup TopicsWithin(topics[i].topics, depth + 1) :
         i \in 1..Len(topics)}

\* every topic of every book of the preset with its doubled score
ScoredTopics ==
  LET t == questionTexts(mapIn.q, mapIn.bankTitle)
  IN UNION {{[bookId |-> mapIn.preset.books[b].id, topicId |-> topic.id,
              score |-> topicScore2(normalize(topic.title), t, topic.depth)] :
               topic \in TopicsWithin(mapIn.preset.books[b].topics, 0)} :
            b \in 1..Len(mapIn.preset.books)}

\* every book of the preset with its doubled score
ScoredBooks ==
  LET t == questionTexts(mapIn.q, mapIn.bankTitle)
  IN {[bookId |-> mapIn.preset.books[b].id,
       score |-> bookScore2(normalize(mapIn.preset.books[b].title), t)] :
        b \in 1..Len(mapIn.preset.books)}

Best(scored) == {s \in scored : \A other \in scored : other.score <= s.score}

NoManualAssignment ==
  /\ mapOut.state = "returned"
  /\ mapIn.preset # Null
  /\ manualAssignment(mapIn.q, mapIn.preset, mapIn.meta) = Null

\* the scored topics whose own title, ancestors' titles and book title are
\* all non-empty after normalization
AllTitled ==
  /\ \A b \in 1..Len(mapIn.preset.books) :
       /\ normalize(mapIn.preset.books[b].title) # << >>
       /\ \A topic \in TopicsWithin(mapIn.preset.books[b].topics, 0) :
            normalize(topic.title) # << >>

ThresholdDecision ==
  IF \E s \in ScoredTopics : s.score >= 2 * TOPIC_THRESHOLD
  THEN /\ mapOut.result # Null
       /\ \E s \in Best(ScoredTopics) :
            mapOut.result = [bookId |-> s.bookId, topicId |-> s.topicId]
  ELSE IF \E s \in ScoredBooks : s.score >= 2 * BOOK_THRESHOLD
  THEN /\ mapOut.result # Null
       /\ \E s \in Best(ScoredBooks) :
            mapOut.result = [bookId |-> s.bookId, topicId |-> ""]
  ELSE mapOut.result = Null

\* C13: when no manual assignment applies, the best-scoring topic is
\* returned with its book if its score is at least 3; otherwise the
\* best-scoring book with a null topic if its score is at least 2; otherwise
\* null.
C13_ThresholdDecision == NoManualAssignment => ThresholdDecision

\* the same decision over presets in which every book and topic is titled
C13_ThresholdDecisionWhereTitled ==
  (NoManualAssignment /\ AllTitled) => ThresholdDecision

(***************************************************************************)
(* Claims on normalizeSyllabusJson                                         *)
(***************************************************************************)
\* the ids of the topics of a list of topics at every depth, one per topic
RECURSIVE TopicIdList(_)
TopicIdList(topics) ==
  IF topics = << >> THEN << >>
  ELSE <<Head(topics).id>> \o TopicIdList(Head(topics).topics)
         \o TopicIdList(Tail(topics))

RECURSIVE PresetTopicIds(_)
PresetTopicIds(books) ==
  IF books = << >> THEN << >>
  ELSE TopicIdList(Head(books).topics) \o PresetTopicIds(Tail(books))

Distinct(seq) == \A i, j \in 1..Len(seq) : seq[i] = seq[j] => i = j

PresetReturned == sylOut.state = "returned" /\ sylOut.preset # Null

\* C14: in a preset returned for a source without ids, no two topics have
\* the same id, across siblings, depths and books.
C14_TopicIdsUnique ==
  PresetReturned => Distinct(PresetTopicIds(sylOut.preset.books))

\* siblings never share an id
RECURSIVE SiblingsDistinct(_)
SiblingsDistinct(topics) ==
  /\ Distinct([i \in 1..Len(topics) |-> topics[i].id])
  /\ \A i \in 1..Len(topics) : SiblingsDistinct(topics[i].topics)

C14_SiblingIdsUnique ==
  PresetReturned =>
    \A b \in 1..Len(sylOut.preset.books) :
      SiblingsDistinct(sylOut.preset.books[b].topics)

\* some topic object of the value (an array of topics, or Null) has neither a
\* title nor a name, at any depth
RECURSIVE UntitledIn(_)
UntitledIn(topics) ==
  /\ IsArray(topics)
  /\ \E i \in 1..Len(topics.elems) :
       LET t == topics.elems[i]
       IN /\ t.kind = "object"
          /\ \/ t.title = Null /\ t.name = Null
             \/ UntitledIn(t.topics)
             \/ UntitledIn(t.subtopics)
             \/ UntitledIn(t.children)

HasUntitledTopic(response) ==
  /\ response \notin {LLMError, Null}
  /\ locateBooks(response) # Null
  /\ \E i \in 1..Len(locateBooks(response).elems) :
       LET b == locateBooks(response).elems[i]
       IN b # Null /\ (UntitledIn(b.topics) \/ UntitledIn(b.modules))

\* a step of the generation handler is a step that sets sylOut
C15_GenerateStep ==
  (sylOut = NoSylOut /\ sylOut' # NoSylOut /\ HasUntitledTopic(sylIn')) =>
    /\ sylOut'.state = "returned"
    /\ sylOut'.preset = Null
    /\ UNCHANGED <<syllabusPresets, selectedSyllabusId>>

\* C15: when a topic object at any depth of any book has neither a title nor
\* a name, normalizeSyllabusJson returns null and the generation adds no
\* preset: the stored presets and the selected syllabus stay as they were.
C15_UntitledTopicAborts == [][C15_GenerateStep]_vars

\* an untitled subtopic next to valid topics and a valid second book, with a
\* preset stored and selected before
C15_Witness ==
  /\ sylOut.state = "returned"
  /\ sylOut.preset = Null
  /\ IsArray(sylIn)
  /\ Len(sylIn.elems) = 2
  /\ sylIn.elems[2] # Null
  /\ ~UntitledIn(sylIn.elems[2].modules)
  /\ Len(sylIn.elems[1].topics.elems) = 2
  /\ sylIn.elems[1].topics.elems[1] = Str(<<"a">>)
  /\ sylIn.elems[1].topics.elems[2].kind = "object"
  /\ sylIn.elems[1].topics.elems[2].title # Null
  /\ UntitledIn(sylIn.elems[1].topics.elems[2].topics)
  /\ syllabusPresets = <<OldPreset>>
  /\ selectedSyllabusId = OldPreset.id

\* C19: in every question normalizeQuizJson emits, the option ids are
\* pairwise distinct, for string options and for object options that carry
\* their own id or label alike.
C19_OptionIdsDistinct ==
  normOut.state = "returned" =>
    \A i \in DOMAIN normOut.out : Distinct(normOut.out[i].options)

\* the ids given by position are distinct: options that are all strings
C19_StringOptionIdsDistinct ==
  (/\ normIn \in RawItems
   /\ normIn # Null
   /\ \A i \in DOMAIN normIn.options : normIn.options[i].kind = "string")
    => Distinct(toOptions(normIn.options))

\* an element the code keeps: it has a stem and options
KeptElement(item) ==
  item # Null /\ item.stem # << >> /\ item.options # << >>

\* an element is valid when it has a stem, options and answers that resolve
\* to at least one option
ValidElement(item) ==
  /\ KeptElement(item)
  /\ normalizeAnswers(item, toOptions(item.options)) # << >>

Keeps(item, answered) ==
  IF answered THEN ValidElement(item) ELSE KeptElement(item)

\* the questions of the elements that are valid (answered) or kept (not
\* answered), in source order, each normalized on its own
RECURSIVE QuestionsOf(_, _, _)
QuestionsOf(items, idx, answered) ==
  IF items = << >> THEN << >>
  ELSE (IF Keeps(Head(items), answered)
        THEN normalizeItem(<< >>, Head(items), idx)
        ELSE << >>)
         \o QuestionsOf(Tail(items), idx + 1, answered)

\* a step of normalizeQuizJson gives what those elements give: a step on one
\* element of a bare array, the return after the last one, and the whole
\* call on another parsed value
NormalizeStepKeeps(answered) ==
  /\ (normOut.state = "running" /\ normOut'.state = "running") =>
       normOut'.out =
         normOut.out \o QuestionsOf(<<normIn'>>, normOut.idx, answered)
  /\ (normOut.state = "running" /\ normOut'.state # "running"
      /\ normIn' = normIn) =>
       /\ normOut'.out = normOut.out
       /\ normOut'.state = "null" <=> normOut.out = << >>
  /\ (normOut.state = "running" /\ normOut'.state # "running"
      /\ normIn' # normIn) =>
       LET arr == IF normIn' = Null THEN Null ELSE locateArray(normIn')
           questions == IF arr = Null THEN << >>
                        ELSE QuestionsOf(arr.elems, 0, answered)
       IN /\ normOut'.out = questions
          /\ normOut'.state = "null" <=> questions = << >>

C16_Step == NormalizeStepKeeps(TRUE)

\* C16: normalizeQuizJson returns the valid elements of the located array in
\* source order, each normalized on its own, and returns null exactly when
\* no array is located or no element is valid.
C16_ValidElementsInOrder == [][C16_Step]_vars

C16_KeptStep == NormalizeStepKeeps(FALSE)

\* the same with the elements that have a stem and options
C16_KeptElementsInOrder == [][C16_KeptStep]_vars

SameQuestion(a, b) ==
  /\ a.id = b.id
  /\ a.stem = b.stem
  /\ a.options = b.options
  /\ a.optionTexts = b.optionTexts
  /\ a.answerIds = b.answerIds

\* C17: normalizing the exported JSON of a bank whose questions came from
\* normalizeQuizJson gives a list of the same length with the same ids,
\* stems, options (ids and texts, in order) and answerIds at every position.
C17_ReimportEqualsOriginal ==
  normOut.state = "reimported" =>
    /\ normOut.again # Null
    /\ Len(normOut.again.elems) = Len(normOut.out)
    /\ \A i \in DOMAIN normOut.out :
         SameQuestion(normOut.again.elems[i], normOut.out[i])

\* the round trip does keep the length, the ids, the stems and the options
C17_ReimportKeepsAllButAnswers ==
  normOut.state = "reimported" =>
    /\ normOut.again # Null
    /\ Len(normOut.again.elems) = Len(normOut.out)
    /\ \A i \in DOMAIN normOut.out :
         /\ normOut.again.elems[i].id = normOut.out[i].id
         /\ normOut.again.elems[i].stem = normOut.out[i].stem
         /\ normOut.again.elems[i].options = normOut.out[i].options
         /\ normOut.again.elems[i].optionTexts = normOut.out[i].optionTexts

(***************************************************************************)
(* Claims on extractFirstJsonBlock                                         *)
(***************************************************************************)
Blanks(n) == [i \in 1..n |-> " "]

\* the JSON values of at most k tokens, without blanks around them
RECURSIVE JsonValues(_)
JsonValues(k) ==
  IF k < 1 THEN {}
  ELSE {<<"0">>}
         \cup {t \in {<<Quote>> \o body \o <<Quote>> :
                        body \in SeqsUpTo(JsonTokens \ {Quote}, Max2(k - 2, 0))} :
                 Len(t) <= k}
         \cup {t \in {<<b[1]>> \o Blanks(n) \o <<b[2]>> :
                        b \in {<<"{", "}">>, <<"[", "]">>}, n \in 0..k} :
                 Len(t) <= k}
         \cup {t \in {<<"[">> \o Blanks(n) \o v \o Blanks(m) \o <<"]">> :
                        v \in JsonValues(k - 2), n \in 0..k, m \in 0..k} :
                 Len(t) <= k}

\* the JSON texts of at most MaxRawLen tokens
JsonTexts ==
  {t \in {Blanks(n) \o v \o Blanks(m) :
            v \in JsonValues(MaxRawLen), n \in 0..MaxRawLen, m \in 0..MaxRawLen} :
     Len(t) <= MaxRawLen}

\* the number of brackets of the family of s[i] still open after s[i..j]
OpenDepth(s, i, j) ==
  Cardinality({k \in i..j : s[k] = s[i]})
    - Cardinality({k \in i..j : s[k] = Closer(s[i])})

\* the end of the same-family balanced span that opens at i, 0 without one
SpanEnd(s, i) ==
  LET ends == {j \in i..Len(s) : OpenDepth(s, i, j) = 0}
  IN IF ends = {} THEN 0 ELSE CHOOSE j \in ends : \A other \in ends : j <= other

\* the opening brackets whose balanced span parses
ParsingCandidates(s) ==
  {i \in 1..Len(s) :
     /\ IsOpener(s[i])
     /\ SpanEnd(s, i) # 0
     /\ SubSeq(s, i, SpanEnd(s, i)) \in JsonTexts}

LeftmostCandidate(s) ==
  LET i == CHOOSE c \in ParsingCandidates(s) :
             \A other \in ParsingCandidates(s) : c <= other
  IN SubSeq(s, i, SpanEnd(s, i))

\* C18: extractFirstJsonBlock returns null or a substring of the input that
\* parses as JSON; when the fence-stripped text is not itself JSON it returns
\* the leftmost opening bracket's balanced span that parses, going on after
\* each candidate that fails, and null only if there is no such candidate.
C18_FirstParsingBlock ==
  jsonOut.state = "returned" =>
    /\ jsonOut.block # Null =>
         /\ includes(jsonIn, jsonOut.block.chars)
         /\ jsonOut.block.chars \in JsonTexts
    /\ stripCodeFences(jsonIn) \notin JsonTexts =>
         IF ParsingCandidates(stripCodeFences(jsonIn)) = {}
         THEN jsonOut.block = Null
         ELSE jsonOut.block = Str(LeftmostCandidate(stripCodeFences(jsonIn)))
    /\ jsonOut.block = Null =>
         ParsingCandidates(stripCodeFences(jsonIn)) = {}

\* a first candidate that fails is followed by one that parses
C18_Witness ==
  /\ jsonOut.state = "returned"
  /\ jsonOut.block = Str(<<"[", "]">>)
  /\ stripCodeFences(jsonIn) \notin JsonTexts
  /\ \E i \in 1..Len(jsonIn) :
       /\ jsonIn[i] = "{"
       /\ SpanEnd(jsonIn, i) # 0
       /\ i < CHOOSE c \in ParsingCandidates(jsonIn) : TRUE

(***************************************************************************)
(* Claims on generateQuiz                                                  *)
(***************************************************************************)
\* a step in which a run ends with the error of a failed batch after earlier
\* batches have added questions
FailsAfterProgress ==
  /\ generationStage = "callingModel"
  /\ generationStage' = "idle"
  /\ toast' \in {"call failed", "batch failed"}
  /\ currentBatchIndex > 1
  /\ allQuestions # << >>

C20_Step ==
  FailsAfterProgress =>
    \E b \in DOMAIN history' : history'[b].questions = allQuestions

\* C20: when batch k of a generation run fails after batches 1..k-1
\* succeeded, the questions accumulated from batches 1..k-1 are a bank of
\* history once the run has ended with its error.
C20_AccumulatedQuestionsKept == [][C20_Step]_vars

C20_DiscardStep == FailsAfterProgress => history' = history

\* what the code does instead: the failed run leaves history as it was
C20_FailedRunLeavesHistory == [][C20_DiscardStep]_vars

(***************************************************************************)
(* Claims on the current index and the auto-advance timers                 *)
(***************************************************************************)
\* C25: while a session with n >= 1 questions is open, the current index
\* stays within 0..n-1 in every interleaving of submissions, pending
\* auto-advance timers and the user's navigation.
C25_IndexWithinSession ==
  Len(quizData) >= 1 => currentQIndex \in 0..(Len(quizData) - 1)

\* a step in which one auto-advance timer expires and nothing else happens
TimerExpires(i) ==
  /\ i \in DOMAIN timers
  /\ timers' = RemoveAt(timers, i)
  /\ UNCHANGED <<screen, pendingNav, quizSettings, sessionKey, quizData,
                 userAnswers, mistakes, resumeDialog>>

C26_Step ==
  \A i \in DOMAIN timers :
    TimerExpires(i) /\ currentQIndex' # currentQIndex =>
      /\ currentQIndex = timers[i].idx
      /\ currentQIndex' = timers[i].idx + 1

\* C26: an auto-advance scheduled by a submission on question i changes the
\* current index only if the session is still on question i when its delay
\* expires, and then it moves to question i+1; after the user has navigated
\* the expired timer leaves the current index unchanged.
C26_TimerMovesOnlyFromItsQuestion == [][C26_Step]_vars

C28_Step == currentQIndex' # currentQIndex => tempSelection' = << >>

BookOf(preset, id) ==
  preset.books[CHOOSE i \in 1..Len(preset.books) : preset.books[i].id = id]

TreeTopicIds(book) == Range(TopicIdList(book.topics))

\* the manual assignment names a book of the preset and a topic that is not
\* in the tree of that book
AssignedTopicOutsideBook ==
  /\ mapIn.preset # Null
  /\ targetBookId(mapIn.meta, mapIn.q) \in PresetBookIds(mapIn.preset)
  /\ targetTopicId(mapIn.meta, mapIn.q) \notin {"", "other"}
  /\ targetTopicId(mapIn.meta, mapIn.q) \notin
       TreeTopicIds(BookOf(mapIn.preset, targetBookId(mapIn.meta, mapIn.q)))

\* C24: a non-null result of mapQuestionToSyllabus names a book of the
\* preset, and its topicId is null, "other" or the id of a topic in the tree
\* of that book; an assigned topic id that is not in the assigned book's tree
\* gives topicId null with the assigned book.
C24_ResultWithinPreset ==
  mapOut.state = "returned" =>
    /\ mapOut.result # Null =>
         /\ mapOut.result.bookId \in PresetBookIds(mapIn.preset)
         /\ \/ mapOut.result.topicId \in {"", "other"}
            \/ mapOut.result.topicId \in
                 TreeTopicIds(BookOf(mapIn.preset, mapOut.result.bookId))
    /\ AssignedTopicOutsideBook =>
         /\ mapOut.result # Null
         /\ mapOut.result.bookId = targetBookId(mapIn.meta, mapIn.q)
         /\ mapOut.result.topicId = ""

\* the assigned topic exists, but in the tree of the other book
C24_Witness ==
  /\ mapOut.state = "returned"
  /\ AssignedTopicOutsideBook
  /\ mapIn.meta.assignedBookId = "b2"
  /\ mapIn.meta.assignedTopicId \in
       TreeTopicIds(BookOf(mapIn.preset, "b1"))

(***************************************************************************)
(* Claims on ties between topics                                           *)
(***************************************************************************)
\* the topics of a list in the order of the traversal, each with its depth
\* and whether the traversal reaches it (no ancestor without a title)
RECURSIVE VisitTopics(_, _, _, _)
VisitTopics(topics, depth, bookId, reached) ==
  IF topics = << >> THEN << >>
  ELSE LET topic == Head(topics)
           titled == normalize(topic.title) # << >>
       IN <<[bookId |-> bookId, topicId |-> topic.id, title |-> topic.title,
             depth |-> depth, scored |-> reached /\ titled]>>
            \o VisitTopics(topic.topics, depth + 1, bookId, reached /\ titled)
            \o VisitTopics(Tail(topics), depth, bookId, reached)

RECURSIVE VisitBooks(_)
VisitBooks(books) ==
  IF books = << >> THEN << >>
  ELSE VisitTopics(Head(books).topics, 0, Head(books).id,
                   normalize(Head(books).title) # << >>)
         \o VisitBooks(Tail(books))

\* the doubled points the four matching rules give a topic title
MatchPoints2(title) ==
  LET t == questionTexts(mapIn.q, mapIn.bankTitle)
      n == normalize(title)
  IN (IF containsLoose(t.qBookTitle, n) THEN 4 ELSE 0)
     + (IF containsLoose(t.questionText, n) THEN 4 ELSE 0)
     + (IF containsLoose(t.nCore, n) THEN 4 ELSE 0)
     + (IF containsLoose(t.nAnalysis, n) THEN 2 ELSE 0)

\* the topics of the preset, each with its place in the traversal and its
\* match points
Visited ==
  {[topic |-> VisitBooks(mapIn.preset.books)[k], order |-> k,
    points |-> MatchPoints2(VisitBooks(mapIn.preset.books)[k].title)] :
     k \in 1..Len(VisitBooks(mapIn.preset.books))}

Selected(v) ==
  /\ mapOut.result # Null
  /\ mapOut.result.bookId = v.topic.bookId
  /\ mapOut.result.topicId = v.topic.topicId

BonusDepth(v) == Min2(v.topic.depth, 2)

C22_DeeperSelected ==
  /\ NoManualAssignment
  /\ \E a, b \in Visited :
       /\ a.topic.scored
       /\ a.points = b.points
       /\ a.topic.depth = 2
       /\ b.topic.depth = 3
       /\ Selected(b)

(***************************************************************************)
(* Claims on API envelopes                                                 *)
(***************************************************************************)
\* the input is an envelope around the inner text
EnvelopeAround(inner) ==
  \/ stripCodeFences(jsonIn) = ChoicesEnvelope(inner)
  \/ stripCodeFences(jsonIn) = CandidatesEnvelope(inner)

\* C21: when the input is a JSON API envelope whose
\* choices[0].message.content or candidates[0].content.parts[0].text holds
\* JSON text, possibly fenced, extractFirstJsonBlock returns that inner
\* JSON text, not the envelope.  Stated for an inner text that is an object
\* or an array.
C21_EnvelopeGivesInnerJson ==
  jsonOut.state = "returned" =>
    \A inner \in InnerTexts :
      (/\ EnvelopeAround(inner)
       /\ stripCodeFences(inner) \in JsonTexts
       /\ IsOpener(stripCodeFences(inner)[skipWs(stripCodeFences(inner), 1)]))
        => jsonOut.block = Str(stripCodeFences(inner))

\* what the code does instead: the envelope parses, so the fence-stripped
\* envelope itself is returned
C21_EnvelopeReturnedWhole ==
  jsonOut.state = "returned" =>
    \A inner \in InnerTexts :
      EnvelopeAround(inner) => jsonOut.block = Str(stripCodeFences(jsonIn))

(***************************************************************************)
(* Claims on callLLM                                                       *)
(***************************************************************************)
\* what a response alone decides: the text of an ok response that has some,
\* an error otherwise
DecidedBy(response) ==
  IF response.status \in 200..299 /\ response.json
     /\ \E i \in 1..Len(response.parts) : response.parts[i] # << >>
  THEN "text"
  ELSE "error"

ResponseReceived == geminiRes' # geminiRes

C23_Step ==
  /\ geminiRequests' \in {<< >>, <<"v1beta">>, <<"v1beta", "v1">>}
  /\ ResponseReceived =>
       /\ (geminiRequests = <<"v1beta">> /\ geminiRes'.status = 404)
            => (geminiRequests' = <<"v1beta", "v1">> /\ llmOutcome' = NoOutcome)
       /\ (geminiRequests # <<"v1beta">> \/ geminiRes'.status # 404)
            => /\ geminiRequests' = geminiRequests
               /\ llmOutcome'.kind = DecidedBy(geminiRes')
               /\ llmOutcome'.kind = "error" =>
                    llmOutcome'.status = geminiRes'.status
  /\ geminiRequests' # geminiRequests /\ geminiRequests # << >>
       => ResponseReceived

\* C23: a gemini-native callLLM issues at most two HTTP requests: one to the
\* v1beta path and, only if that response has status 404, exactly one more
\* to the v1 path; no other status triggers a retry, a 404 from v1 is not
\* retried, and the outcome is decided by the last response received.
C23_OneRetryOn404 == [][C23_Step]_vars

\* a 404 from v1beta was retried with v1, whose 404 ended the call
C23_Witness ==
  /\ geminiRequests = <<"v1beta", "v1">>
  /\ geminiRes.version = "v1"
  /\ geminiRes.status = 404
  /\ llmOutcome = [kind |-> "error", reason |-> "status", status |-> 404]

(***************************************************************************)
(* Claims on the mistakes collection and its trash                         *)
(***************************************************************************)
\* C27: after any sequence of incorrect submissions, move-to-trash,
\* clear-all-to-trash, restore-one and restore-all operations, the mistakes
\* collection never contains two entries with the same question id.
C27_MistakeIdsDistinct ==
  \A i, j \in DOMAIN mistakes : mistakes[i].id = mistakes[j].id => i = j

C27_StepWithoutRestoreAll ==
  (C27_MistakeIdsDistinct /\ mistakes' # mistakes \o mistakeTrash)
    => C27_MistakeIdsDistinct'

\* every operation but restore-all keeps the ids of the mistakes distinct
C27_OnlyRestoreAllDuplicates == [][C27_StepWithoutRestoreAll]_vars

(***************************************************************************)
(* Claims on the sessions over the groups of a syllabus                    *)
(***************************************************************************)
WholeSyllabusSession ==
  /\ selectedSyllabus # Null
  /\ sessionKey = buildSyllabusSessionKey(selectedSyllabusId)

\* the questions the grouping places in a book of the selected syllabus
PlacedInBooks == {grouped[i].id : i \in {j \in DOMAIN grouped : grouped[j].bookId # ""}}

PerBookQuestions ==
  UNION {Range(bookQuestions(grouped, selectedSyllabus.books[i].id)) :
           i \in DOMAIN selectedSyllabus.books}

\* C29: the question list of a whole-syllabus session contains every
\* question that the grouping places in a book of the selected syllabus,
\* questions of nested topics included, each exactly once; it is the union
\* of the question lists of the per-book sessions of that syllabus.
C29_WholeSyllabusHoldsEveryGroup ==
  WholeSyllabusSession =>
    /\ Range(quizData) = PlacedInBooks
    /\ Distinct(quizData)
    /\ Range(quizData) = PerBookQuestions

\* the list of a whole-syllabus session holds placed questions only, each
\* once, and the per-book lists together hold every placed question
C29_WholeSyllabusWithinGroups ==
  /\ WholeSyllabusSession =>
       /\ Range(quizData) \subseteq PlacedInBooks
       /\ Distinct(quizData)
  /\ selectedSyllabus # Null => PerBookQuestions = PlacedInBooks

(***************************************************************************)
(* Claims on the progress stored under different keys                      *)
(***************************************************************************)
StoredUnder(st, k) == loadProgress(st, k)

ChangedKeys == {k \in SessionKeys : StoredUnder(store', k) # StoredUnder(store, k)}

C30_Step == ChangedKeys \subseteq {sessionKey'}

\* C30: saving or clearing the progress of one session key leaves the stored
\* progress of every other session key unchanged, whatever sessions were
\* opened, answered, reset and restarted under the keys: a step changes the
\* stored progress of the key of its session only.
C30_OtherKeysUnchanged == [][C30_Step]_vars

\* the tag scope is being answered while the bank has answered progress stored
C30_Witness ==
  /\ sessionKey = "tag:x"
  /\ screen = "quiz"
  /\ SessionKeys \subseteq DOMAIN store
  /\ store["tag:x"].answeredCount > 0
  /\ store[buildBankSessionKey].answeredCount > 0
  /\ store["tag:x"] # store[buildBankSessionKey]
====
